---------------------------- MODULE Spec2Model ----------------------------
(***************************************************************************)
(* A model of the proxy rotation layer of stealth_proxy.py: the Proxy      *)
(* health record, the ProxyPool (selection, eviction, sticky map) and the  *)
(* StealthSession retry loop.                                              *)
(*                                                                         *)
(* Time is counted in whole seconds.  Scores are exact rationals, kept as  *)
(* a numerator over a denominator (the code computes them in floats).      *)
(***************************************************************************)
EXTENDS Integers, Sequences, FiniteSets, TLC

(***************************************************************************)
(* Program constants.                                                      *)
(***************************************************************************)
\* Scores and thresholds are in hundredths: 0.5 is 50, 0.25 is 25.
INITIAL_PROXY_SCORE == 50
MAX_SCORE_DECAY == 20
SCORE_DECAY_RATE == 5
DECAY_HOURS_DIVISOR == 3600
SOFT_FAIL_PENALTY_SECONDS == 20
HARD_FAIL_PENALTY_SECONDS == 90
MAX_PENALTY_MULTIPLIER == 3
FAILURE_THRESHOLD == 3
COOLDOWN_REDUCTION_SUCCESS == 5
\* ProxyPool.__init__ defaults, in hundredths
min_score == 25
eviction_threshold == 5
\* _evict_bad: the number of attempts below which a proxy is never evicted
EVICT_MIN_ATTEMPTS == 5

(***************************************************************************)
(* Bounds of the model.                                                    *)
(***************************************************************************)
\* number of Proxy objects that can exist
NumProxies == 3
\* the clock reading when the program starts (time.time() is far from 0)
Epoch == 1000
\* how many times the clock advances in one behaviour
MaxTicks == 2
\* mark_success + mark_fail calls on one Proxy (single-proxy specification)
MaxProxyMarks == 6
\* ProxyPool(max_size=...)
max_size == 2
\* the largest max_retries_per_request a session is built with
MaxRetries == 3
\* threads calling request() on one session
NumThreads == 1
\* threads calling request() at the same time on one session
NumCallers == 2
\* the max_retries_per_request of the session they share
CallerRetries == 2
\* records in one list given to integrate_provider_proxies
MaxRecords == 2
\* mark_result calls on one pool, over all its proxies
MaxPoolMarks == 2
\* the same, for the pool as the sessions use it
MaxSessionMarks == 6
MaxHeldMarks == 8

ProxyIds == 1..NumProxies
None == 0
\* the domains requests go to; NoDomain is get_next() without a domain
Domains == {"a.com"}
NoDomain == ""
\* the amounts by which the clock advances between two steps
TickSteps == {15, 7200}

Threads == 1..NumThreads
\* the amounts by which the clock advances while requests run
SessionTickSteps == {4, 20}
Callers == 1..NumCallers

Max(a, b) == IF a >= b THEN a ELSE b
Min(a, b) == IF a <= b THEN a ELSE b

VARIABLES
    now,             \* time.time()
    nticks,          \* clock advances so far
    success,         \* Proxy.success, per object
    fail,            \* Proxy.fail
    cooldown_until,  \* Proxy.cooldown_until
    created_at,      \* Proxy.created_at
    rd_pc,           \* a reader of Proxy.score outside the pool lock
    rd_proxy,        \*   the object it reads
    rd_total,        \*   the total it has read
    rd_score,        \*   the score it computed: <<numerator, denominator>>
    offered,         \* how many Proxy objects add_proxy / bulk_add were given
    proxies,         \* ProxyPool._proxies
    cursor,          \* ProxyPool._cursor
    sticky_map,      \* ProxyPool._sticky_map
    ret,             \* the last completed call: its name, arguments and result
    session,         \* "unbuilt", or "built" once StealthSession(...) returned
    max_retries,     \* StealthSession.max_retries
    net_dead,        \* TRUE: every network call ends in a ConnectionError
    domain_last_req, \* StealthSession._domain_last_req
    sess_lock,       \* the thread holding StealthSession._lock, or None
    pc,              \* per thread: where it is in request()
    attempt,         \* per thread: the loop variable of request()
    held,            \* per thread: the proxy get_next gave it
    out,             \* per thread: how the last network call ended
    result,          \* per thread: what request() returned
    sent,            \* per thread: network calls made by this request()
    wake,            \* per thread: when its pacing sleep ends
    pool_lock,       \* the thread holding ProxyPool._lock, or None
    api_result,      \* the argument of integrate_provider_proxies
    adapter_out,     \* the list it returned
    adapter_done,    \* TRUE once it has returned
    hdr_args,        \* random_headers: its arguments and its random draws
    headers,         \* the dict it returned
    hdr_done,        \* TRUE once it has returned
    mk_read,         \* per thread: the counter value mark_success / mark_fail read
    mk_done,         \* per Proxy: mark_result calls that have returned
    req_kwargs,      \* the **kwargs request() was called with
    net_call         \* the arguments of the last requests.request(...) call

clockVars == <<now, nticks>>
proxyVars == <<success, fail, cooldown_until, created_at>>
readerVars == <<rd_pc, rd_proxy, rd_total, rd_score>>
poolVars == <<offered, proxies, cursor, sticky_map>>
sessVars == <<session, max_retries, net_dead, domain_last_req, sess_lock>>
threadVars == <<pc, attempt, held, out, result, sent, wake>>
adapterVars == <<api_result, adapter_out, adapter_done>>
headerVars == <<hdr_args, headers, hdr_done>>
markVars == <<mk_read, mk_done>>
optVars == <<req_kwargs, net_call>>
vars == <<clockVars, proxyVars, readerVars, poolVars, ret, sessVars, threadVars,
         pool_lock, adapterVars, headerVars, markVars, optVars>>

\* The record of a completed call: its name, its arguments (the proxy, the
\* domain, enable_sticky, success, soft) and its result.  prev is the
\* result of the call before it when that was the same get_next call
\* (same domain, same enable_sticky) and returned a proxy, None otherwise.
Ret(op, p, d, st, ok, so, r) ==
    [op |-> op, proxy |-> p, domain |-> d, sticky |-> st, success |-> ok,
     soft |-> so, result |-> r,
     prev |-> IF op = "get_next" /\ ret.op = "get_next"
                 /\ ret.domain = d /\ ret.sticky = st
              THEN ret.result ELSE None]
NoRet ==
    [op |-> "none", proxy |-> None, domain |-> "", sticky |-> FALSE,
     success |-> FALSE, soft |-> FALSE, result |-> None, prev |-> None]

(***************************************************************************)
(* Proxy.score                                                             *)
(***************************************************************************)
\* max(0.0, min(1.0, x)) of a fraction num/den
Clamp01_NoClamp(num, den) == num
Clamp01(num, den) == Max(0, Min(den, num))

\* The denominator of a score computed from a total of `total` attempts.
ScoreDen(total) ==
    100 * DECAY_HOURS_DIVISOR * (IF total > 0 THEN total ELSE 1)

\* ScoreNum with the age taken in seconds where the code takes hours
ScoreNum_AgeInSeconds(succ, total, t, born) ==
    LET age == Max(1, t - born)
        decay == Min(MAX_SCORE_DECAY * DECAY_HOURS_DIVISOR,
                     age * DECAY_HOURS_DIVISOR * SCORE_DECAY_RATE)
        T == IF total > 0 THEN total ELSE 1
        base == IF total > 0 THEN 100 * succ ELSE INITIAL_PROXY_SCORE
    IN  Clamp01(base * DECAY_HOURS_DIVISOR - decay * T, ScoreDen(total))

\* ScoreNum with the decay added to the base
ScoreNum_DecayAdded(succ, total, t, born) ==
    LET age == Max(1, t - born)
        decay == Min(MAX_SCORE_DECAY * DECAY_HOURS_DIVISOR, age * SCORE_DECAY_RATE)
        T == IF total > 0 THEN total ELSE 1
        base == IF total > 0 THEN 100 * succ ELSE INITIAL_PROXY_SCORE
    IN  Clamp01(base * DECAY_HOURS_DIVISOR + decay * T, ScoreDen(total))

\* The numerator of the score: base - decay, clamped, where base is
\* succ/total (or 0.5 without attempts) and decay is
\* min(0.2, age/3600 * 0.05) with age = max(1, now - created_at).
\* `succ` and `total` are passed apart because the property reads
\* self.success twice.
ScoreNum(succ, total, t, born) ==
    LET age == Max(1, t - born)
        decay == Min(MAX_SCORE_DECAY * DECAY_HOURS_DIVISOR, age * SCORE_DECAY_RATE)
        T == IF total > 0 THEN total ELSE 1
        base == IF total > 0 THEN 100 * succ ELSE INITIAL_PROXY_SCORE
    IN  Clamp01(base * DECAY_HOURS_DIVISOR - decay * T, ScoreDen(total))

\* p.score read in one piece (as under the pool lock)
Score(p) ==
    <<ScoreNum(success[p], success[p] + fail[p], now, created_at[p]),
      ScoreDen(success[p] + fail[p])>>

\* score >= threshold, threshold in hundredths
ScoreAtLeast(sc, threshold) == sc[1] * 100 >= threshold * sc[2]

(***************************************************************************)
(* Proxy.mark_success, Proxy.mark_fail, Proxy.is_available                 *)
(*                                                                         *)
(* Both mark methods also store time.time() in self.last_used, a field     *)
(* nothing in the program reads; it is not part of the state here.  Each   *)
(* method reads the clock within one step.                                 *)
(***************************************************************************)
mark_success_cooldown_Extends(cd, t) == Max(cd + COOLDOWN_REDUCTION_SUCCESS, t)
\* mark_success_cooldown without the floor at the current time
mark_success_cooldown_NoFloor(cd, t) == cd - COOLDOWN_REDUCTION_SUCCESS
mark_success_cooldown(cd, t) == Max(cd - COOLDOWN_REDUCTION_SUCCESS, t)

\* The cooldown mark_fail sets; nfail is self.fail after its increment.
mark_fail_cooldown_NoMax(cd, t, nfail, soft) ==
    t + (IF soft THEN SOFT_FAIL_PENALTY_SECONDS ELSE HARD_FAIL_PENALTY_SECONDS)
        * Min(MAX_PENALTY_MULTIPLIER, 1 + (nfail \div FAILURE_THRESHOLD))
\* mark_fail_cooldown without the scaling by the failure count
mark_fail_cooldown_Unscaled(cd, t, nfail, soft) ==
    Max(cd, t + (IF soft THEN SOFT_FAIL_PENALTY_SECONDS ELSE HARD_FAIL_PENALTY_SECONDS))
mark_fail_cooldown(cd, t, nfail, soft) ==
    LET base_penalty == IF soft THEN SOFT_FAIL_PENALTY_SECONDS
                                ELSE HARD_FAIL_PENALTY_SECONDS
        scaled == base_penalty
                  * Min(MAX_PENALTY_MULTIPLIER, 1 + (nfail \div FAILURE_THRESHOLD))
    IN  Max(cd, t + scaled)

mark_success(p) ==
    /\ success' = [success EXCEPT ![p] = @ + 1]
    /\ cooldown_until' =
           [cooldown_until EXCEPT ![p] = mark_success_cooldown(@, now)]
    /\ UNCHANGED <<fail, created_at>>

mark_fail(p, soft) ==
    /\ fail' = [fail EXCEPT ![p] = @ + 1]
    /\ cooldown_until' =
           [cooldown_until EXCEPT ![p] = mark_fail_cooldown(@, now, fail[p] + 1, soft)]
    /\ UNCHANGED <<success, created_at>>

is_available_Always(p) == TRUE
is_available(p) == now >= cooldown_until[p]

(***************************************************************************)
(* The source adapter before it is called.                                 *)
(***************************************************************************)
NoAdapter ==
    /\ api_result = <<>>
    /\ adapter_out = <<>>
    /\ adapter_done = FALSE

(***************************************************************************)
(* random_headers before it is called.                                     *)
(***************************************************************************)
NoHeaders ==
    /\ hdr_args = <<>>
    /\ headers = <<>>
    /\ hdr_done = FALSE

(***************************************************************************)
(* The counting of mark_result calls before any is made.                   *)
(***************************************************************************)
NoMarks ==
    /\ mk_read = <<>>
    /\ mk_done = <<>>

(***************************************************************************)
(* No request() call with options yet.                                     *)
(***************************************************************************)
NoOptions ==
    /\ req_kwargs = <<>>
    /\ net_call = <<>>

(***************************************************************************)
(* The StealthSession state before any session exists.                     *)
(***************************************************************************)
NoSession ==
    /\ session = "unbuilt"
    /\ max_retries = 0
    /\ net_dead = FALSE
    /\ domain_last_req = [d \in Domains |-> 0]
    /\ sess_lock = None
    /\ pc = [t \in Threads |-> "idle"]
    /\ attempt = [t \in Threads |-> 0]
    /\ held = [t \in Threads |-> None]
    /\ out = [t \in Threads |-> [status |-> 0, blocked |-> FALSE, exc |-> "none"]]
    /\ result = [t \in Threads |-> [kind |-> "pending", status |-> 0, blocked |-> FALSE]]
    /\ sent = [t \in Threads |-> 0]
    /\ wake = [t \in Threads |-> 0]

(***************************************************************************)
(* The clock.                                                              *)
(***************************************************************************)
Tick(d) ==
    /\ nticks < MaxTicks
    /\ now' = now + d
    /\ nticks' = nticks + 1

(***************************************************************************)
(* A single Proxy: its methods called in any order at any times, and its   *)
(* score read by a thread that holds no lock (__repr__ in a log line)      *)
(* while another thread marks results.                                     *)
(*                                                                         *)
(* The Proxy objects are constructed when the program starts (the source   *)
(* adapter builds its list before it loads the pool): created_at is the    *)
(* starting time of the clock.                                             *)
(***************************************************************************)
ProxyInit ==
    /\ now = Epoch
    /\ nticks = 0
    /\ success = [p \in ProxyIds |-> 0]
    /\ fail = [p \in ProxyIds |-> 0]
    /\ cooldown_until = [p \in ProxyIds |-> 0]
    /\ created_at = [p \in ProxyIds |-> Epoch]
    /\ rd_pc = "idle"
    /\ rd_proxy = 1
    /\ rd_total = 0
    /\ rd_score = <<0, 1>>
    /\ offered = 0
    /\ proxies = <<>>
    /\ cursor = 0
    /\ sticky_map = [d \in Domains |-> None]
    /\ ret = NoRet
    /\ NoSession
    /\ pool_lock = None
    /\ NoAdapter
    /\ NoHeaders
    /\ NoMarks
    /\ NoOptions

ProxyMarkSuccess ==
    /\ success[1] + fail[1] < MaxProxyMarks
    /\ mark_success(1)
    /\ ret' = Ret("mark_success", 1, "", FALSE, TRUE, FALSE, None)
    /\ UNCHANGED <<clockVars, readerVars, poolVars>>

ProxyMarkFail(soft) ==
    /\ success[1] + fail[1] < MaxProxyMarks
    /\ mark_fail(1, soft)
    /\ ret' = Ret("mark_fail", 1, "", FALSE, FALSE, soft, None)
    /\ UNCHANGED <<clockVars, readerVars, poolVars>>

ProxyTick(d) ==
    /\ Tick(d)
    /\ UNCHANGED <<proxyVars, readerVars, ret, poolVars>>

\* total = self.success + self.fail
ScoreReadTotal(p) ==
    /\ rd_pc \in {"idle", "done"}
    /\ rd_pc' = "base"
    /\ rd_proxy' = p
    /\ rd_total' = success[p] + fail[p]
    /\ UNCHANGED <<rd_score, clockVars, proxyVars, ret, poolVars>>

\* base = (self.success / total) if total > 0 else ...; decay; clamp
ScoreReadBase ==
    /\ rd_pc = "base"
    /\ rd_pc' = "done"
    /\ rd_score' = <<ScoreNum(success[rd_proxy], rd_total, now, created_at[rd_proxy]),
                     ScoreDen(rd_total)>>
    /\ UNCHANGED <<rd_proxy, rd_total, clockVars, proxyVars, ret, poolVars>>

ProxyNext ==
    /\ \/ ProxyMarkSuccess
       \/ \E soft \in BOOLEAN : ProxyMarkFail(soft)
       \/ \E d \in TickSteps : ProxyTick(d)
       \/ ScoreReadTotal(1)
       \/ ScoreReadBase
    /\ UNCHANGED <<sessVars, threadVars, pool_lock, adapterVars, headerVars, markVars, optVars>>

SpecProxy == ProxyInit /\ [][ProxyNext]_vars

(***************************************************************************)
(* ProxyPool.  Every method body runs under `with self._lock`, so each     *)
(* call is one step: no two bodies overlap, whatever threads call them.    *)
(***************************************************************************)
Range(seq) == {seq[i] : i \in 1..Len(seq)}

\* add_proxy: append while under max_size
add_proxy_NoCap(ps, p) == Append(ps, p)
add_proxy(ps, p) == IF Len(ps) < max_size THEN Append(ps, p) ELSE ps

\* bulk_add: the loop over the supplied list, which breaks when full
bulk_add_AllOrNothing(ps, new) ==
    IF Len(ps) + Len(new) <= max_size THEN ps \o new ELSE ps
RECURSIVE bulk_add(_, _)
bulk_add(ps, new) ==
    IF new = <<>> \/ Len(ps) >= max_size THEN ps
    ELSE bulk_add(Append(ps, Head(new)), Tail(new))

\* _evict_bad: the condition under which a proxy stays
EvictKeep_AnyCount(p) == ScoreAtLeast(Score(p), eviction_threshold)
EvictKeep(p) ==
    \/ ScoreAtLeast(Score(p), eviction_threshold)
    \/ success[p] + fail[p] < EVICT_MIN_ATTEMPTS

_evict_bad(ps) == SelectSeq(ps, EvictKeep)

Healthy(p) == is_available(p) /\ ScoreAtLeast(Score(p), min_score)

\* the candidate list of get_next over the list ps
Candidates_HealthyOnly(ps) == SelectSeq(ps, Healthy)
\* Candidates falling back to the whole list, cooling proxies included
Candidates_FallbackAny(ps) ==
    LET healthy == SelectSeq(ps, Healthy)
    IN  IF healthy # <<>> THEN healthy ELSE ps
Candidates(ps) ==
    LET healthy == SelectSeq(ps, Healthy)
    IN  IF healthy # <<>> THEN healthy ELSE SelectSeq(ps, is_available)

\* the sticky proxy get_next returns at once, or None
\* StickyHit that never consults the map
StickyHit_IgnoresMapping(d, st) == None
StickyHit(d, st) ==
    IF st /\ d # NoDomain /\ sticky_map[d] # None /\ Healthy(sticky_map[d])
    THEN sticky_map[d] ELSE None

\* the sticky map after get_next has chosen a proxy by rotation
StickyRecord_Never(d, st, chosen) == sticky_map
\* StickyRecord that records whatever enable_sticky says
StickyRecord_IgnoresFlag(d, st, chosen) ==
    IF d # NoDomain THEN [sticky_map EXCEPT ![d] = chosen] ELSE sticky_map
StickyRecord(d, st, chosen) ==
    IF st /\ d # NoDomain THEN [sticky_map EXCEPT ![d] = chosen] ELSE sticky_map

\* pool.add_proxy(p) with the next Proxy object of the source's list
AddProxy ==
    /\ offered < NumProxies
    /\ offered' = offered + 1
    /\ proxies' = add_proxy(proxies, offered + 1)
    /\ ret' = Ret("add_proxy", offered + 1, "", FALSE, FALSE, FALSE, None)
    /\ UNCHANGED <<cursor, sticky_map, clockVars, proxyVars, readerVars>>

\* pool.bulk_add(list) with the next n Proxy objects of the source's list
BulkAdd(n) ==
    /\ offered + n <= NumProxies
    /\ offered' = offered + n
    /\ proxies' = bulk_add(proxies, [k \in 1..n |-> offered + k])
    /\ ret' = Ret("bulk_add", n, "", FALSE, FALSE, FALSE, None)
    /\ UNCHANGED <<cursor, sticky_map, clockVars, proxyVars, readerVars>>

\* get_next that picks at the cursor without advancing it
GetNext_NoAdvance(d, st) ==
    LET kept == _evict_bad(proxies)
        sticky == StickyHit(d, st)
        candidates == Candidates(kept)
        next == cursor % Len(candidates)
        chosen == candidates[next + 1]
    IN  /\ proxies' = kept
        /\ UNCHANGED offered
        /\ IF sticky # None
           THEN /\ ret' = Ret("get_next", None, d, st, FALSE, FALSE, sticky)
                /\ UNCHANGED <<cursor, sticky_map>>
           ELSE IF candidates = <<>>
           THEN /\ ret' = Ret("get_next", None, d, st, FALSE, FALSE, None)
                /\ UNCHANGED <<cursor, sticky_map>>
           ELSE /\ cursor' = next
                /\ sticky_map' = StickyRecord(d, st, chosen)
                /\ ret' = Ret("get_next", None, d, st, FALSE, FALSE, chosen)
        /\ UNCHANGED <<clockVars, proxyVars, readerVars>>

\* get_next wrapping the cursor on the length of the whole list
GetNext_WrapOnListLength(d, st) ==
    LET kept == _evict_bad(proxies)
        sticky == StickyHit(d, st)
        candidates == Candidates(kept)
        next == (cursor + 1) % Len(kept)
        chosen == candidates[(next % Len(candidates)) + 1]
    IN  /\ proxies' = kept
        /\ UNCHANGED offered
        /\ IF sticky # None
           THEN /\ ret' = Ret("get_next", None, d, st, FALSE, FALSE, sticky)
                /\ UNCHANGED <<cursor, sticky_map>>
           ELSE IF candidates = <<>>
           THEN /\ ret' = Ret("get_next", None, d, st, FALSE, FALSE, None)
                /\ UNCHANGED <<cursor, sticky_map>>
           ELSE /\ cursor' = next
                /\ sticky_map' = StickyRecord(d, st, chosen)
                /\ ret' = Ret("get_next", None, d, st, FALSE, FALSE, chosen)
        /\ UNCHANGED <<clockVars, proxyVars, readerVars>>

\* pool.get_next(domain, enable_sticky)
GetNext(d, st) ==
    LET kept == _evict_bad(proxies)
        sticky == StickyHit(d, st)
        candidates == Candidates(kept)
        next == (cursor + 1) % Len(candidates)
        chosen == candidates[next + 1]
    IN  /\ proxies' = kept
        /\ UNCHANGED offered
        /\ IF sticky # None
           THEN /\ ret' = Ret("get_next", None, d, st, FALSE, FALSE, sticky)
                /\ UNCHANGED <<cursor, sticky_map>>
           ELSE IF candidates = <<>>
           THEN /\ ret' = Ret("get_next", None, d, st, FALSE, FALSE, None)
                /\ UNCHANGED <<cursor, sticky_map>>
           ELSE /\ cursor' = next
                /\ sticky_map' = StickyRecord(d, st, chosen)
                /\ ret' = Ret("get_next", None, d, st, FALSE, FALSE, chosen)
        /\ UNCHANGED <<clockVars, proxyVars, readerVars>>

RECURSIVE MarksUpTo(_)
MarksUpTo(i) == IF i = 0 THEN 0 ELSE MarksUpTo(i - 1) + success[i] + fail[i]
\* the mark_result calls made so far
TotalMarks == MarksUpTo(NumProxies)

\* pool.mark_result(proxy, success, soft_fail) with a Proxy.  The proxies
\* marked are those the pool still refers to, from its list or its sticky
\* map: a mark on any other object changes nothing the pool can reach.
MarkResult_Swapped(p, ok, soft) ==
    /\ p \in Range(proxies) \cup {sticky_map[d] : d \in Domains}
    /\ IF ok THEN mark_fail(p, soft) ELSE mark_success(p)
    /\ ret' = Ret("mark_result", p, "", FALSE, ok, soft, None)
    /\ UNCHANGED <<poolVars, clockVars, readerVars>>
MarkResult(p, ok, soft) ==
    /\ p \in Range(proxies) \cup {sticky_map[d] : d \in Domains}
    /\ IF ok THEN mark_success(p) ELSE mark_fail(p, soft)
    /\ ret' = Ret("mark_result", p, "", FALSE, ok, soft, None)
    /\ UNCHANGED <<poolVars, clockVars, readerVars>>

\* pool.mark_result(None, ...): returns before taking the lock
MarkResultNone(ok, soft) ==
    /\ ret' = Ret("mark_result", None, "", FALSE, ok, soft, None)
    /\ UNCHANGED <<poolVars, proxyVars, clockVars, readerVars>>

\* mark_result as any caller may call it (soft_fail matters to a failure only)
PoolMarkResult(p, ok, soft) ==
    /\ TotalMarks < MaxPoolMarks
    /\ ok => ~soft
    /\ MarkResult(p, ok, soft)

PoolTick(d) ==
    /\ Tick(d)
    /\ UNCHANGED <<proxyVars, readerVars, poolVars, ret>>

PoolInit ==
    /\ now = Epoch
    /\ nticks = 0
    /\ success = [p \in ProxyIds |-> 0]
    /\ fail = [p \in ProxyIds |-> 0]
    /\ cooldown_until = [p \in ProxyIds |-> 0]
    /\ created_at = [p \in ProxyIds |-> Epoch]
    /\ rd_pc = "idle"
    /\ rd_proxy = 1
    /\ rd_total = 0
    /\ rd_score = <<0, 1>>
    /\ offered = 0
    /\ proxies = <<>>
    /\ cursor = 0
    /\ sticky_map = [d \in Domains |-> None]
    /\ ret = NoRet
    /\ NoSession
    /\ pool_lock = None
    /\ NoAdapter
    /\ NoHeaders
    /\ NoMarks
    /\ NoOptions

PoolNext ==
    /\ \/ AddProxy
       \/ \E n \in 0..NumProxies : BulkAdd(n)
       \/ \E d \in Domains \cup {NoDomain}, st \in BOOLEAN : GetNext(d, st)
       \/ \E p \in ProxyIds, ok \in BOOLEAN, soft \in BOOLEAN : PoolMarkResult(p, ok, soft)
       \/ \E ok \in BOOLEAN : MarkResultNone(ok, FALSE)
       \/ \E d \in TickSteps : PoolTick(d)
    /\ UNCHANGED <<sessVars, threadVars, pool_lock, adapterVars, headerVars, markVars, optVars>>

SpecPool == PoolInit /\ [][PoolNext]_vars

(***************************************************************************)
(* The pool as StealthSession threads use it: loaded once by bulk_add      *)
(* before the session is created, then get_next(domain, enable_sticky=True)*)
(* and mark_result calls from any number of request threads.  All the      *)
(* outcomes a response can have are soft failures or successes.            *)
(***************************************************************************)
LoadedInit ==
    /\ now = Epoch
    /\ nticks = 0
    /\ success = [p \in ProxyIds |-> 0]
    /\ fail = [p \in ProxyIds |-> 0]
    /\ cooldown_until = [p \in ProxyIds |-> 0]
    /\ created_at = [p \in ProxyIds |-> Epoch]
    /\ rd_pc = "idle"
    /\ rd_proxy = 1
    /\ rd_total = 0
    /\ rd_score = <<0, 1>>
    /\ offered = NumProxies
    /\ proxies = bulk_add(<<>>, [k \in 1..NumProxies |-> k])
    /\ cursor = 0
    /\ sticky_map = [d \in Domains |-> None]
    /\ ret = NoRet
    /\ NoSession
    /\ pool_lock = None
    /\ NoAdapter
    /\ NoHeaders
    /\ NoMarks
    /\ NoOptions

\* mark_result as _request_once calls it for a response: (proxy, True) or
\* (proxy, False, soft_fail=True)
LoadedMarkResult(p, ok) ==
    /\ TotalMarks < MaxSessionMarks
    /\ MarkResult(p, ok, ~ok)

LoadedNext ==
    /\ \/ \E d \in Domains : GetNext(d, TRUE)
       \/ \E p \in ProxyIds, ok \in BOOLEAN : LoadedMarkResult(p, ok)
       \/ \E d \in TickSteps : PoolTick(d)
    /\ UNCHANGED <<sessVars, threadVars, pool_lock, adapterVars, headerVars, markVars, optVars>>

SpecLoaded == LoadedInit /\ [][LoadedNext]_vars

(***************************************************************************)
(* The loaded pool with more request threads in flight: each thread took   *)
(* its proxy from get_next and reports its response later, so up to        *)
(* MaxHeldMarks results arrive for proxies handed out before.              *)
(***************************************************************************)
HeldMarkResult(p, ok) ==
    /\ TotalMarks < MaxHeldMarks
    /\ MarkResult(p, ok, ~ok)

HeldNext ==
    /\ \/ \E d \in Domains : GetNext(d, TRUE)
       \/ \E p \in ProxyIds, ok \in BOOLEAN : HeldMarkResult(p, ok)
       \/ \E d \in TickSteps : PoolTick(d)
    /\ UNCHANGED <<sessVars, threadVars, pool_lock, adapterVars, headerVars, markVars, optVars>>

SpecHeld == LoadedInit /\ [][HeldNext]_vars


(***************************************************************************)
(* StealthSession: request() and _request_once(), one call per thread.     *)
(* The pool is loaded before the session is built.  Every request goes to  *)
(* the one domain of Domains.                                              *)
(***************************************************************************)
TheDomain == CHOOSE d \in Domains : TRUE
\* per_domain_delay, the default (1.0, 4.0), in seconds
MIN_DOMAIN_DELAY == 1
MAX_DOMAIN_DELAY == 4
SOFT_STATUS_CODES == {403, 429, 503}
\* the status codes a response is drawn from
StatusCodes == {200, 301, 404, 429, 500}

\* How requests.request(...) can end: a response (its status, and whether
\* the first 4096 characters of its body hold a block pattern) or one of
\* the exceptions of the requests library.
Resp(status, blocked) == [status |-> status, blocked |-> blocked, exc |-> "none"]
Exc(e) == [status |-> 0, blocked |-> FALSE, exc |-> e]
NoOutcome == Exc("none")
Outcomes ==
    {Resp(st, b) : st \in StatusCodes, b \in BOOLEAN}
        \cup {Exc(e) : e \in {"Timeout", "ConnectionError", "RequestException"}}

\* What request() has returned so far.
Pending == [kind |-> "pending", status |-> 0, blocked |-> FALSE]
NoneResult == [kind |-> "none", status |-> 0, blocked |-> FALSE]
Raised == [kind |-> "raised", status |-> 0, blocked |-> FALSE]
Response(o) == [kind |-> "response", status |-> o.status, blocked |-> o.blocked]

\* _looks_blocked(resp)
_looks_blocked_StatusOnly(o) == o.status \in SOFT_STATUS_CODES
_looks_blocked(o) == o.status \in SOFT_STATUS_CODES \/ o.blocked

\* _request_once after the network call: the mark_result it makes
\* (success, soft_fail) and what it hands back ("response", "none", or
\* "raise" when the exception is not caught).
Verdict(ok, soft, returns) == [success |-> ok, soft |-> soft, returns |-> returns]
Classify_NoCatchAll(o) ==
    IF o.exc \in {"Timeout", "ConnectionError"} THEN Verdict(FALSE, TRUE, "none")
    ELSE IF o.exc = "RequestException" THEN Verdict(FALSE, FALSE, "raise")
    ELSE IF 200 <= o.status /\ o.status < 300 /\ ~_looks_blocked(o)
         THEN Verdict(TRUE, FALSE, "response")
    ELSE IF 300 <= o.status /\ o.status < 400 /\ o.status \notin SOFT_STATUS_CODES
         THEN Verdict(TRUE, FALSE, "response")
    ELSE Verdict(FALSE, TRUE, "none")
\* Classify handing an unexpected 4xx/5xx response back to request()
Classify_ReturnsUnexpected(o) ==
    IF o.exc \in {"Timeout", "ConnectionError"} THEN Verdict(FALSE, TRUE, "none")
    ELSE IF o.exc = "RequestException" THEN Verdict(FALSE, FALSE, "none")
    ELSE IF 200 <= o.status /\ o.status < 300
         THEN IF _looks_blocked(o) THEN Verdict(FALSE, TRUE, "none")
              ELSE Verdict(TRUE, FALSE, "response")
    ELSE IF o.status \in SOFT_STATUS_CODES THEN Verdict(FALSE, TRUE, "none")
    ELSE IF 300 <= o.status /\ o.status < 400 THEN Verdict(TRUE, FALSE, "response")
    ELSE Verdict(FALSE, TRUE, "response")
Classify(o) ==
    IF o.exc \in {"Timeout", "ConnectionError"} THEN Verdict(FALSE, TRUE, "none")
    ELSE IF o.exc = "RequestException" THEN Verdict(FALSE, FALSE, "none")
    ELSE IF 200 <= o.status /\ o.status < 300
         THEN IF _looks_blocked(o) THEN Verdict(FALSE, TRUE, "none")
              ELSE Verdict(TRUE, FALSE, "response")
    ELSE IF o.status \in SOFT_STATUS_CODES THEN Verdict(FALSE, TRUE, "none")
    ELSE IF 300 <= o.status /\ o.status < 400 THEN Verdict(TRUE, FALSE, "response")
    ELSE Verdict(FALSE, TRUE, "none")

\* for attempt in range(1, self.max_retries + 1): attempt k was the last
LoopExhausted_OneShort(k) == k >= max_retries - 1
LoopExhausted_OneMore(k) == k >= max_retries + 1
LoopExhausted(k) == k >= max_retries

\* StealthSession(proxy_pool, max_retries_per_request=mr): stores its
\* arguments; nothing is validated.
SessionBuild(mr) ==
    /\ session = "unbuilt"
    /\ session' = "built"
    /\ max_retries' = mr
    /\ UNCHANGED <<net_dead, domain_last_req, sess_lock, threadVars,
                   clockVars, proxyVars, readerVars, poolVars, ret>>

\* an attempt of thread t went without a response: the next attempt, or
\* the end of request() with None
AttemptFailed(t) ==
    IF LoopExhausted(attempt[t])
    THEN /\ pc' = [pc EXCEPT ![t] = "done"]
         /\ result' = [result EXCEPT ![t] = NoneResult]
         /\ UNCHANGED attempt
    ELSE /\ pc' = [pc EXCEPT ![t] = "jitter"]
         /\ attempt' = [attempt EXCEPT ![t] = @ + 1]
         /\ UNCHANGED result

\* session.request(method, url) is called by thread t
Request(t) ==
    /\ session = "built"
    /\ pc[t] = "idle"
    /\ IF max_retries >= 1
       THEN /\ pc' = [pc EXCEPT ![t] = "jitter"]
            /\ attempt' = [attempt EXCEPT ![t] = 1]
            /\ UNCHANGED result
       ELSE /\ pc' = [pc EXCEPT ![t] = "done"]
            /\ result' = [result EXCEPT ![t] = NoneResult]
            /\ UNCHANGED attempt
    /\ UNCHANGED <<held, out, sent, wake, sessVars,
                   clockVars, proxyVars, readerVars, poolVars, ret>>

\* human_delay(0.3, 1.8): the thread sleeps, holding no lock
Jitter(t) ==
    /\ pc[t] = "jitter"
    /\ pc' = [pc EXCEPT ![t] = "pace"]
    /\ UNCHANGED <<attempt, held, out, result, sent, wake, sessVars,
                   clockVars, proxyVars, readerVars, poolVars, ret>>

\* _respect_rate_limit: takes the session lock, draws the gap; if the last
\* request to the domain is older than the gap it stores the time and
\* releases the lock, otherwise it sleeps with the lock held
PaceEnter_NoLock(t, gap) ==
    /\ pc[t] = "pace"
    /\ IF now - domain_last_req[TheDomain] < gap
       THEN /\ wake' = [wake EXCEPT ![t] = now + (gap - (now - domain_last_req[TheDomain]))]
            /\ pc' = [pc EXCEPT ![t] = "pace_sleep"]
            /\ UNCHANGED domain_last_req
       ELSE /\ domain_last_req' = [domain_last_req EXCEPT ![TheDomain] = now]
            /\ pc' = [pc EXCEPT ![t] = "select"]
            /\ UNCHANGED wake
    /\ UNCHANGED <<session, max_retries, net_dead, sess_lock, attempt, held, out, result,
                   sent, clockVars, proxyVars, readerVars, poolVars, ret>>
PaceEnter(t, gap) ==
    /\ pc[t] = "pace"
    /\ sess_lock = None
    /\ IF now - domain_last_req[TheDomain] < gap
       THEN /\ sess_lock' = t
            /\ wake' = [wake EXCEPT ![t] = now + (gap - (now - domain_last_req[TheDomain]))]
            /\ pc' = [pc EXCEPT ![t] = "pace_sleep"]
            /\ UNCHANGED domain_last_req
       ELSE /\ domain_last_req' = [domain_last_req EXCEPT ![TheDomain] = now]
            /\ pc' = [pc EXCEPT ![t] = "select"]
            /\ UNCHANGED <<sess_lock, wake>>
    /\ UNCHANGED <<session, max_retries, net_dead, attempt, held, out, result, sent,
                   clockVars, proxyVars, readerVars, poolVars, ret>>

\* the pacing sleep is over: the time is stored and the lock released
PaceWake_StoresOverrun(t) ==
    /\ pc[t] = "pace_sleep"
    /\ now >= wake[t]
    /\ domain_last_req' = [domain_last_req EXCEPT ![TheDomain] = now - wake[t]]
    /\ sess_lock' = None
    /\ pc' = [pc EXCEPT ![t] = "select"]
    /\ UNCHANGED <<session, max_retries, net_dead, attempt, held, out, result, sent, wake,
                   clockVars, proxyVars, readerVars, poolVars, ret>>
\* PaceWake leaving the with block without releasing the lock
PaceWake_KeepsLock(t) ==
    /\ pc[t] = "pace_sleep"
    /\ now >= wake[t]
    /\ domain_last_req' = [domain_last_req EXCEPT ![TheDomain] = now]
    /\ pc' = [pc EXCEPT ![t] = "select"]
    /\ UNCHANGED <<session, max_retries, net_dead, sess_lock, attempt, held, out, result,
                   sent, wake, clockVars, proxyVars, readerVars, poolVars, ret>>
PaceWake(t) ==
    /\ pc[t] = "pace_sleep"
    /\ now >= wake[t]
    /\ domain_last_req' = [domain_last_req EXCEPT ![TheDomain] = now]
    /\ sess_lock' = None
    /\ pc' = [pc EXCEPT ![t] = "select"]
    /\ UNCHANGED <<session, max_retries, net_dead, attempt, held, out, result, sent, wake,
                   clockVars, proxyVars, readerVars, poolVars, ret>>

\* proxy = self.proxy_pool.get_next(domain=domain, enable_sticky=True);
\* without a proxy the attempt ends here
Select_NoBudget(t) ==
    /\ pc[t] = "select"
    /\ GetNext(TheDomain, TRUE)
    /\ held' = [held EXCEPT ![t] = ret'.result]
    /\ pc' = [pc EXCEPT ![t] = IF ret'.result = None THEN "jitter" ELSE "send"]
    /\ UNCHANGED <<attempt, result, out, sent, wake, sessVars>>
Select(t) ==
    /\ pc[t] = "select"
    /\ GetNext(TheDomain, TRUE)
    /\ held' = [held EXCEPT ![t] = ret'.result]
    /\ IF ret'.result = None
       THEN AttemptFailed(t)
       ELSE /\ pc' = [pc EXCEPT ![t] = "send"]
            /\ UNCHANGED <<attempt, result>>
    /\ UNCHANGED <<out, sent, wake, sessVars>>

\* requests.request(...) ends with outcome o; the outcome is classified,
\* the pool is told, and the response or None goes back to request()
Respond(t, o) ==
    /\ pc[t] = "send"
    /\ net_dead => o = Exc("ConnectionError")
    /\ out' = [out EXCEPT ![t] = o]
    /\ sent' = [sent EXCEPT ![t] = @ + 1]
    /\ LET v == Classify(o)
       IN  IF v.returns = "raise"
           THEN /\ pc' = [pc EXCEPT ![t] = "done"]
                /\ result' = [result EXCEPT ![t] = Raised]
                /\ UNCHANGED <<attempt, proxyVars, poolVars, ret, clockVars, readerVars>>
           ELSE /\ MarkResult(held[t], v.success, v.soft)
                /\ IF v.returns = "response"
                   THEN /\ pc' = [pc EXCEPT ![t] = "done"]
                        /\ result' = [result EXCEPT ![t] = Response(o)]
                        /\ UNCHANGED attempt
                   ELSE AttemptFailed(t)
    /\ UNCHANGED <<held, wake, sessVars>>

SessionTick(d) ==
    /\ Tick(d)
    /\ UNCHANGED <<proxyVars, readerVars, poolVars, ret, sessVars, threadVars>>

\* The pool holds the first n proxies of the source's list; no session yet.
SessionInit ==
    /\ now = Epoch
    /\ nticks = 0
    /\ success = [p \in ProxyIds |-> 0]
    /\ fail = [p \in ProxyIds |-> 0]
    /\ cooldown_until = [p \in ProxyIds |-> 0]
    /\ created_at = [p \in ProxyIds |-> Epoch]
    /\ rd_pc = "idle"
    /\ rd_proxy = 1
    /\ rd_total = 0
    /\ rd_score = <<0, 1>>
    /\ \E n \in 0..max_size :
          /\ offered = n
          /\ proxies = bulk_add(<<>>, [k \in 1..n |-> k])
    /\ cursor = 0
    /\ sticky_map = [d \in Domains |-> None]
    /\ ret = NoRet
    /\ session = "unbuilt"
    /\ max_retries = 0
    /\ net_dead \in BOOLEAN
    /\ domain_last_req = [d \in Domains |-> 0]
    /\ sess_lock = None
    /\ pc = [t \in Threads |-> "idle"]
    /\ attempt = [t \in Threads |-> 0]
    /\ held = [t \in Threads |-> None]
    /\ out = [t \in Threads |-> NoOutcome]
    /\ result = [t \in Threads |-> Pending]
    /\ sent = [t \in Threads |-> 0]
    /\ wake = [t \in Threads |-> 0]
    /\ pool_lock = None
    /\ NoAdapter
    /\ NoHeaders
    /\ NoMarks
    /\ NoOptions

\* The pool's lock is free whenever a thread calls get_next or mark_result
\* here (one caller), so each call is one step.
SessionNext ==
    /\ \/ \E mr \in -1..MaxRetries : SessionBuild(mr)
       \/ \E t \in Threads : Request(t)
       \/ \E t \in Threads : Jitter(t)
       \/ \E t \in Threads, gap \in MIN_DOMAIN_DELAY..MAX_DOMAIN_DELAY : PaceEnter(t, gap)
       \/ \E t \in Threads : PaceWake(t)
       \/ \E t \in Threads : Select(t)
       \/ \E t \in Threads, o \in Outcomes : Respond(t, o)
       \/ \E d \in SessionTickSteps : SessionTick(d)
    /\ UNCHANGED <<pool_lock, adapterVars, headerVars, markVars, optVars>>

SpecSession == SessionInit /\ [][SessionNext]_vars

(***************************************************************************)
(* Concurrent request() calls on one StealthSession.  Several threads      *)
(* contend for ProxyPool._lock, so entering a `with self._lock` block of   *)
(* the pool and running its body are two steps: between them the thread    *)
(* holds the lock.  The network call returns, then mark_result is called.  *)
(***************************************************************************)
\* what a network call can end in, in this specification
CallerOutcomes == {Resp(200, FALSE), Resp(429, FALSE), Exc("ConnectionError")}

\* the holder of the pool's lock once a `with self._lock` block is left
LockReleased_Leak(t) == t
LockReleased(t) == None

\* get_next: `with self._lock` is entered
GetNextEnter(t) ==
    /\ pc[t] = "select"
    /\ pool_lock = None
    /\ pool_lock' = t
    /\ pc' = [pc EXCEPT ![t] = "get_next"]
    /\ UNCHANGED <<attempt, held, out, result, sent, wake, sessVars,
                   clockVars, proxyVars, readerVars, poolVars, ret>>

\* get_next: the body runs and the lock is released
GetNextReturn(t) ==
    /\ pc[t] = "get_next"
    /\ GetNext(TheDomain, TRUE)
    /\ held' = [held EXCEPT ![t] = ret'.result]
    /\ IF ret'.result = None
       THEN AttemptFailed(t)
       ELSE /\ pc' = [pc EXCEPT ![t] = "send"]
            /\ UNCHANGED <<attempt, result>>
    /\ pool_lock' = LockReleased(t)
    /\ UNCHANGED <<out, sent, wake, sessVars>>

\* requests.request(...) ends with outcome o
NetworkReturn(t, o) ==
    /\ pc[t] = "send"
    /\ out' = [out EXCEPT ![t] = o]
    /\ sent' = [sent EXCEPT ![t] = @ + 1]
    /\ IF Classify(o).returns = "raise"
       THEN /\ pc' = [pc EXCEPT ![t] = "done"]
            /\ result' = [result EXCEPT ![t] = Raised]
       ELSE /\ pc' = [pc EXCEPT ![t] = "mark_wait"]
            /\ UNCHANGED result
    /\ UNCHANGED <<attempt, held, wake, sessVars, pool_lock,
                   clockVars, proxyVars, readerVars, poolVars, ret>>

\* mark_result: `with self._lock` is entered
MarkResultEnter(t) ==
    /\ pc[t] = "mark_wait"
    /\ pool_lock = None
    /\ pool_lock' = t
    /\ pc' = [pc EXCEPT ![t] = "mark_result"]
    /\ UNCHANGED <<attempt, held, out, result, sent, wake, sessVars,
                   clockVars, proxyVars, readerVars, poolVars, ret>>

\* mark_result: the body runs, the lock is released, and _request_once
\* returns to the loop of request()
MarkResultReturn(t) ==
    /\ pc[t] = "mark_result"
    /\ LET v == Classify(out[t])
       IN  /\ MarkResult(held[t], v.success, v.soft)
           /\ IF v.returns = "response"
              THEN /\ pc' = [pc EXCEPT ![t] = "done"]
                   /\ result' = [result EXCEPT ![t] = Response(out[t])]
                   /\ UNCHANGED attempt
              ELSE AttemptFailed(t)
    /\ pool_lock' = LockReleased(t)
    /\ UNCHANGED <<held, out, sent, wake, sessVars>>

\* A pool loaded to max_size and a session built with CallerRetries.
CallersInit ==
    /\ now = Epoch
    /\ nticks = 0
    /\ success = [p \in ProxyIds |-> 0]
    /\ fail = [p \in ProxyIds |-> 0]
    /\ cooldown_until = [p \in ProxyIds |-> 0]
    /\ created_at = [p \in ProxyIds |-> Epoch]
    /\ rd_pc = "idle"
    /\ rd_proxy = 1
    /\ rd_total = 0
    /\ rd_score = <<0, 1>>
    /\ offered = NumProxies
    /\ proxies = bulk_add(<<>>, [k \in 1..NumProxies |-> k])
    /\ cursor = 0
    /\ sticky_map = [d \in Domains |-> None]
    /\ ret = NoRet
    /\ session = "built"
    /\ max_retries = CallerRetries
    /\ net_dead = FALSE
    /\ domain_last_req = [d \in Domains |-> 0]
    /\ sess_lock = None
    /\ pc = [t \in Callers |-> "idle"]
    /\ attempt = [t \in Callers |-> 0]
    /\ held = [t \in Callers |-> None]
    /\ out = [t \in Callers |-> NoOutcome]
    /\ result = [t \in Callers |-> Pending]
    /\ sent = [t \in Callers |-> 0]
    /\ wake = [t \in Callers |-> 0]
    /\ pool_lock = None
    /\ NoAdapter
    /\ NoHeaders
    /\ NoMarks
    /\ NoOptions

CallersNext ==
    /\ \/ \E t \in Callers : Request(t) /\ UNCHANGED pool_lock
       \/ \E t \in Callers : Jitter(t) /\ UNCHANGED pool_lock
       \/ \E t \in Callers, gap \in {MIN_DOMAIN_DELAY, MAX_DOMAIN_DELAY} :
             PaceEnter(t, gap) /\ UNCHANGED pool_lock
       \/ \E t \in Callers : PaceWake(t) /\ UNCHANGED pool_lock
       \/ \E t \in Callers : GetNextEnter(t)
       \/ \E t \in Callers : GetNextReturn(t)
       \/ \E t \in Callers, o \in CallerOutcomes : NetworkReturn(t, o)
       \/ \E t \in Callers : MarkResultEnter(t)
       \/ \E t \in Callers : MarkResultReturn(t)
       \/ \E d \in SessionTickSteps : SessionTick(d) /\ UNCHANGED pool_lock
    /\ UNCHANGED <<adapterVars, headerVars, markVars, optVars>>

SpecCallers == CallersInit /\ [][CallersNext]_vars

(***************************************************************************)
(* The same concurrent calls with the body of mark_result in its steps:    *)
(* `self.success += 1` (or self.fail) reads the counter and writes it back,*)
(* then the cooldown is updated, then the lock is released.  mk_done       *)
(* counts, per Proxy, the mark_result calls that have returned.            *)
(***************************************************************************)
\* mark_result entering its body without taking the lock
MarkBodyEnter_NoLock(t) ==
    /\ pc[t] = "mark_wait"
    /\ pc' = [pc EXCEPT ![t] = "mark_result"]
    /\ UNCHANGED <<attempt, held, out, result, sent, wake, sessVars, pool_lock,
                   clockVars, proxyVars, readerVars, poolVars, ret>>
\* mark_result: `with self._lock` is entered
MarkBodyEnter(t) == MarkResultEnter(t)

\* self.success += 1 / self.fail += 1: the counter is read
MarkRead(t) ==
    /\ pc[t] = "mark_result"
    /\ mk_read' = [mk_read EXCEPT ![t] =
                      IF Classify(out[t]).success THEN success[held[t]]
                                                  ELSE fail[held[t]]]
    /\ pc' = [pc EXCEPT ![t] = "mark_write"]
    /\ UNCHANGED <<mk_done, attempt, held, out, result, sent, wake, sessVars, pool_lock,
                   clockVars, proxyVars, readerVars, poolVars, ret>>

\* ... and written back, one higher
MarkWrite(t) ==
    /\ pc[t] = "mark_write"
    /\ IF Classify(out[t]).success
       THEN /\ success' = [success EXCEPT ![held[t]] = mk_read[t] + 1]
            /\ UNCHANGED fail
       ELSE /\ fail' = [fail EXCEPT ![held[t]] = mk_read[t] + 1]
            /\ UNCHANGED success
    /\ pc' = [pc EXCEPT ![t] = "mark_cool"]
    /\ UNCHANGED <<cooldown_until, created_at, markVars, attempt, held, out, result,
                   sent, wake, sessVars, pool_lock, clockVars, readerVars, poolVars, ret>>

\* the cooldown is updated, the lock released, and _request_once returns
\* to the loop of request()
MarkCool(t) ==
    /\ pc[t] = "mark_cool"
    /\ LET v == Classify(out[t])
           p == held[t]
       IN  /\ cooldown_until' =
                  [cooldown_until EXCEPT ![p] =
                      IF v.success THEN mark_success_cooldown(@, now)
                      ELSE mark_fail_cooldown(@, now, fail[p], v.soft)]
           /\ ret' = Ret("mark_result", p, "", FALSE, v.success, v.soft, None)
           /\ mk_done' = [mk_done EXCEPT ![p] = @ + 1]
           /\ IF v.returns = "response"
              THEN /\ pc' = [pc EXCEPT ![t] = "done"]
                   /\ result' = [result EXCEPT ![t] = Response(out[t])]
                   /\ UNCHANGED attempt
              ELSE AttemptFailed(t)
    /\ pool_lock' = LockReleased(t)
    /\ UNCHANGED <<success, fail, created_at, mk_read, held, out, sent, wake, sessVars,
                   clockVars, readerVars, poolVars>>

MarksInit ==
    /\ now = Epoch
    /\ nticks = 0
    /\ success = [p \in ProxyIds |-> 0]
    /\ fail = [p \in ProxyIds |-> 0]
    /\ cooldown_until = [p \in ProxyIds |-> 0]
    /\ created_at = [p \in ProxyIds |-> Epoch]
    /\ rd_pc = "idle"
    /\ rd_proxy = 1
    /\ rd_total = 0
    /\ rd_score = <<0, 1>>
    /\ offered = NumProxies
    /\ proxies = bulk_add(<<>>, [k \in 1..NumProxies |-> k])
    /\ cursor = 0
    /\ sticky_map = [d \in Domains |-> None]
    /\ ret = NoRet
    /\ session = "built"
    /\ max_retries = CallerRetries
    /\ net_dead = FALSE
    /\ domain_last_req = [d \in Domains |-> 0]
    /\ sess_lock = None
    /\ pc = [t \in Callers |-> "idle"]
    /\ attempt = [t \in Callers |-> 0]
    /\ held = [t \in Callers |-> None]
    /\ out = [t \in Callers |-> NoOutcome]
    /\ result = [t \in Callers |-> Pending]
    /\ sent = [t \in Callers |-> 0]
    /\ wake = [t \in Callers |-> 0]
    /\ pool_lock = None
    /\ NoAdapter
    /\ NoHeaders
    /\ mk_read = [t \in Callers |-> 0]
    /\ mk_done = [p \in ProxyIds |-> 0]
    /\ NoOptions

MarksNext ==
    /\ \/ \E t \in Callers : Request(t) /\ UNCHANGED <<pool_lock, markVars>>
       \/ \E t \in Callers : Jitter(t) /\ UNCHANGED <<pool_lock, markVars>>
       \/ \E t \in Callers, gap \in {MIN_DOMAIN_DELAY, MAX_DOMAIN_DELAY} :
             PaceEnter(t, gap) /\ UNCHANGED <<pool_lock, markVars>>
       \/ \E t \in Callers : PaceWake(t) /\ UNCHANGED <<pool_lock, markVars>>
       \/ \E t \in Callers : GetNextEnter(t) /\ UNCHANGED markVars
       \/ \E t \in Callers : GetNextReturn(t) /\ UNCHANGED markVars
       \/ \E t \in Callers, o \in CallerOutcomes : NetworkReturn(t, o) /\ UNCHANGED markVars
       \/ \E t \in Callers : MarkBodyEnter(t) /\ UNCHANGED markVars
       \/ \E t \in Callers : MarkRead(t)
       \/ \E t \in Callers : MarkWrite(t)
       \/ \E t \in Callers : MarkCool(t)
       \/ \E d \in SessionTickSteps : SessionTick(d) /\ UNCHANGED <<pool_lock, markVars>>
    /\ UNCHANGED <<adapterVars, headerVars, optVars>>

SpecMarks == MarksInit /\ [][MarksNext]_vars

(***************************************************************************)
(* Concurrent request() calls under a fair scheduler: a thread that can    *)
(* take a step eventually takes one, a sleep ends once its time has        *)
(* passed, and every network call returns (requests.request is given a     *)
(* timeout).  Nothing makes a caller call request().  The clock moves as   *)
(* the sleeps take it.                                                     *)
(***************************************************************************)
\* time.sleep(...) of the pacing delay: the time asked for passes
SleepOver(t) ==
    /\ pc[t] = "pace_sleep"
    /\ now < wake[t]
    /\ now' = wake[t]
    /\ UNCHANGED <<nticks, proxyVars, readerVars, poolVars, ret, sessVars, threadVars>>

\* a step of thread t inside request()
FairStep(t) ==
    /\ \/ Jitter(t) /\ UNCHANGED pool_lock
       \/ \E gap \in {MIN_DOMAIN_DELAY, MAX_DOMAIN_DELAY} :
             PaceEnter(t, gap) /\ UNCHANGED pool_lock
       \/ SleepOver(t) /\ UNCHANGED pool_lock
       \/ PaceWake(t) /\ UNCHANGED pool_lock
       \/ GetNextEnter(t)
       \/ GetNextReturn(t)
       \/ \E o \in CallerOutcomes : NetworkReturn(t, o)
       \/ MarkResultEnter(t)
       \/ MarkResultReturn(t)
    /\ UNCHANGED <<adapterVars, headerVars, markVars, optVars>>

FairNext ==
    \/ \E t \in Callers : FairStep(t)
    \/ /\ \E t \in Callers : Request(t)
       /\ UNCHANGED <<pool_lock, adapterVars, headerVars, markVars, optVars>>

SpecFair ==
    /\ CallersInit
    /\ [][FairNext]_vars
    /\ \A t \in Callers : WF_vars(FairStep(t))

(***************************************************************************)
(* _respect_rate_limit called by threads whose requests go to different    *)
(* domains.  What an attempt does after its pacing step (get_next, the     *)
(* network call, mark_result) touches neither StealthSession._lock nor     *)
(* _domain_last_req and is one step here, an attempt without a response.   *)
(***************************************************************************)
PaceDomains == {"a.com", "b.com"}
\* the netloc of the url thread t requests
DomainOf(t) == IF t = 1 THEN "a.com" ELSE "b.com"

\* _respect_rate_limit(domain): `with self._lock`, the gap is drawn; the
\* time is stored at once, or the thread sleeps inside the with block
RateLimitEnter(t, gap) ==
    /\ pc[t] = "pace"
    /\ sess_lock = None
    /\ IF now - domain_last_req[DomainOf(t)] < gap
       THEN /\ sess_lock' = t
            /\ wake' = [wake EXCEPT ![t] =
                           now + (gap - (now - domain_last_req[DomainOf(t)]))]
            /\ pc' = [pc EXCEPT ![t] = "pace_sleep"]
            /\ UNCHANGED domain_last_req
       ELSE /\ domain_last_req' = [domain_last_req EXCEPT ![DomainOf(t)] = now]
            /\ pc' = [pc EXCEPT ![t] = "select"]
            /\ UNCHANGED <<sess_lock, wake>>
    /\ UNCHANGED <<session, max_retries, net_dead, attempt, held, out, result, sent,
                   clockVars, proxyVars, readerVars, poolVars, ret>>

\* time.sleep returns: the time is stored, the with block is left
RateLimitWake(t) ==
    /\ pc[t] = "pace_sleep"
    /\ now >= wake[t]
    /\ domain_last_req' = [domain_last_req EXCEPT ![DomainOf(t)] = now]
    /\ sess_lock' = None
    /\ pc' = [pc EXCEPT ![t] = "select"]
    /\ UNCHANGED <<session, max_retries, net_dead, attempt, held, out, result, sent, wake,
                   clockVars, proxyVars, readerVars, poolVars, ret>>

\* the rest of the attempt, ending without a response
RestOfAttempt(t) ==
    /\ pc[t] = "select"
    /\ AttemptFailed(t)
    /\ UNCHANGED <<held, out, sent, wake, sessVars,
                   clockVars, proxyVars, readerVars, poolVars, ret>>

PacingInit ==
    /\ now = Epoch
    /\ nticks = 0
    /\ success = [p \in ProxyIds |-> 0]
    /\ fail = [p \in ProxyIds |-> 0]
    /\ cooldown_until = [p \in ProxyIds |-> 0]
    /\ created_at = [p \in ProxyIds |-> Epoch]
    /\ rd_pc = "idle"
    /\ rd_proxy = 1
    /\ rd_total = 0
    /\ rd_score = <<0, 1>>
    /\ offered = NumProxies
    /\ proxies = bulk_add(<<>>, [k \in 1..NumProxies |-> k])
    /\ cursor = 0
    /\ sticky_map = [d \in Domains |-> None]
    /\ ret = NoRet
    /\ session = "built"
    /\ max_retries = CallerRetries
    /\ net_dead = FALSE
    /\ domain_last_req = [d \in PaceDomains |-> 0]
    /\ sess_lock = None
    /\ pc = [t \in Callers |-> "idle"]
    /\ attempt = [t \in Callers |-> 0]
    /\ held = [t \in Callers |-> None]
    /\ out = [t \in Callers |-> NoOutcome]
    /\ result = [t \in Callers |-> Pending]
    /\ sent = [t \in Callers |-> 0]
    /\ wake = [t \in Callers |-> 0]
    /\ pool_lock = None
    /\ NoAdapter
    /\ NoHeaders
    /\ NoMarks
    /\ NoOptions

PacingNext ==
    /\ \/ \E t \in Callers : Request(t)
       \/ \E t \in Callers : Jitter(t)
       \/ \E t \in Callers, gap \in {MIN_DOMAIN_DELAY, MAX_DOMAIN_DELAY} :
             RateLimitEnter(t, gap)
       \/ \E t \in Callers : RateLimitWake(t)
       \/ \E t \in Callers : RestOfAttempt(t)
       \/ \E d \in SessionTickSteps : SessionTick(d)
    /\ UNCHANGED <<pool_lock, adapterVars, headerVars, markVars, optVars>>

SpecPacing == PacingInit /\ [][PacingNext]_vars

(***************************************************************************)
(* integrate_provider_proxies: the provider feed's records, made Proxy     *)
(* objects.  A field of a record is absent, null (None), a string or an    *)
(* integer; `n` is the number a numeric string spells, `s` the text.       *)
(***************************************************************************)
Absent == [kind |-> "absent", s |-> "", n |-> 0]
Null == [kind |-> "null", s |-> "", n |-> 0]
Str(text) == [kind |-> "str", s |-> text, n |-> 0]
NumStr(text, value) == [kind |-> "numstr", s |-> text, n |-> value]
IntVal(value) == [kind |-> "int", s |-> "", n |-> value]

IpFields == {Absent, Null, Str("1.2.3.4"), Str("5.6.7.8")}
PortFields == {Absent, Null, IntVal(8000), NumStr("8080", 8080), Str("http")}
ProtocolFields == {Absent, Null, Str("http"), Str("HTTPS")}
Records == [ip : IpFields, port : PortFields, protocol : ProtocolFields]

\* a call that raised, or the value it returned
Raise == [raised |-> TRUE, v |-> Absent]
Value(x) == [raised |-> FALSE, v |-> x]

\* item["ip"], item["port"]: KeyError when the key is missing
Subscript(field) == IF field.kind = "absent" THEN Raise ELSE Value(field)
\* item.get("protocol", "http")
GetOr(field, default) == IF field.kind = "absent" THEN default ELSE field
\* int(x): the integer itself, the number a numeric string spells,
\* ValueError for another string, TypeError for None
int(x) ==
    IF x.kind \in {"int", "numstr"} THEN Value(IntVal(x.n)) ELSE Raise
\* str.lower(), on the texts that occur
LowerText(text) == IF text = "HTTPS" THEN "https" ELSE text
\* proto.lower(): AttributeError unless proto is a string
lower(x) ==
    IF x.kind \in {"str", "numstr"} THEN Value(Str(LowerText(x.s))) ELSE Raise

\* Proxy(host=item["ip"], port=int(item["port"]),
\*       proto=item.get("protocol", "http"), ...), or Raise
MakeProxy(item) ==
    LET host == Subscript(item.ip)
        port == IF Subscript(item.port).raised THEN Raise ELSE int(item.port)
        proto == lower(GetOr(item.protocol, Str("http")))
    IN  IF host.raised \/ port.raised \/ proto.raised THEN Raise
        ELSE Value([host |-> host.v, port |-> port.v.n, proto |-> proto.v.s])

\* the loop of integrate_provider_proxies: try / except Exception: continue
integrate_provider_proxies_AbortsBatch(items) ==
    IF \E i \in 1..Len(items) : MakeProxy(items[i]).raised THEN <<>>
    ELSE [i \in 1..Len(items) |-> MakeProxy(items[i]).v]
RECURSIVE integrate_provider_proxies(_)
integrate_provider_proxies(items) ==
    IF items = <<>> THEN <<>>
    ELSE LET made == MakeProxy(Head(items))
             rest == integrate_provider_proxies(Tail(items))
         IN  IF made.raised THEN rest ELSE <<made.v>> \o rest

\* the adapter is called with the list api_result
Integrate ==
    /\ ~adapter_done
    /\ adapter_out' = integrate_provider_proxies(api_result)
    /\ adapter_done' = TRUE
    /\ UNCHANGED api_result

\* the lists of at most MaxRecords records
RecordLists == UNION {[1..len -> Records] : len \in 0..MaxRecords}

AdapterInit ==
    /\ now = Epoch
    /\ nticks = 0
    /\ success = [p \in ProxyIds |-> 0]
    /\ fail = [p \in ProxyIds |-> 0]
    /\ cooldown_until = [p \in ProxyIds |-> 0]
    /\ created_at = [p \in ProxyIds |-> Epoch]
    /\ rd_pc = "idle"
    /\ rd_proxy = 1
    /\ rd_total = 0
    /\ rd_score = <<0, 1>>
    /\ offered = 0
    /\ proxies = <<>>
    /\ cursor = 0
    /\ sticky_map = [d \in Domains |-> None]
    /\ ret = NoRet
    /\ NoSession
    /\ pool_lock = None
    /\ api_result \in RecordLists
    /\ adapter_out = <<>>
    /\ adapter_done = FALSE
    /\ NoHeaders
    /\ NoMarks
    /\ NoOptions

AdapterNext ==
    /\ Integrate
    /\ UNCHANGED <<clockVars, proxyVars, readerVars, poolVars, ret, sessVars,
                   threadVars, pool_lock, headerVars, markVars, optVars>>

SpecAdapter == AdapterInit /\ [][AdapterNext]_vars

(***************************************************************************)
(* random_headers(is_mobile, referer, extra).  A dict is a function from   *)
(* its keys.  Each pool is cut to two of its entries, in short form; a     *)
(* draw `random.random() < P` is the boolean it yields.                    *)
(***************************************************************************)
DESKTOP_UAS == <<"Chrome/124 Windows", "Firefox/125 Windows">>
MOBILE_UAS == <<"Safari/17 iPhone", "Chrome/123 Android">>
ACCEPT_LANGS == <<"en-US,en;q=0.9", "en-GB,en;q=0.9">>
ACCEPT_HEADERS == <<"text/html,image/avif,*/*;q=0.8", "text/html,*/*;q=0.8">>
\* indices random.choice can pick
Picks == {1, 2}

EmptyDict == [k \in {} |-> ""]
\* referer: None (or the empty string), or a URL
NoReferer == ""
Referers == {NoReferer, "https://example.com"}
\* extra: None (or the empty dict), or a dict of the caller
Extras ==
    {EmptyDict,
     "X-Custom" :> "v",
     "User-Agent" :> "caller-agent",
     ("X-Custom" :> "v") @@ ("Accept" :> "application/json"),
     ("Referer" :> "https://caller.example") @@ ("DNT" :> "0")}

HeaderArgs ==
    [is_mobile : BOOLEAN, referer : Referers, extra : Extras,
     mobile_draw : BOOLEAN, ua : Picks, accept : Picks, lang : Picks,
     referer_draw : BOOLEAN, dnt_draw : BOOLEAN, cache_draw : BOOLEAN,
     pragma_draw : BOOLEAN]

\* headers[key] = value
SetItem(h, key, value) ==
    [k \in DOMAIN h \cup {key} |-> IF k = key THEN value ELSE h[k]]
\* headers.update(extra)
update_KeepsOld(h, e) ==
    [k \in DOMAIN h \cup DOMAIN e |-> IF k \in DOMAIN h THEN h[k] ELSE e[k]]
update(h, e) ==
    [k \in DOMAIN h \cup DOMAIN e |-> IF k \in DOMAIN e THEN e[k] ELSE h[k]]

random_headers(a) ==
    LET ua_pool == IF a.is_mobile /\ a.mobile_draw THEN MOBILE_UAS ELSE DESKTOP_UAS
        h0 == [k \in {"User-Agent", "Accept", "Accept-Language", "Accept-Encoding",
                      "Connection", "Upgrade-Insecure-Requests", "Sec-Fetch-Site",
                      "Sec-Fetch-Mode", "Sec-Fetch-User", "Sec-Fetch-Dest"} |->
                 CASE k = "User-Agent" -> ua_pool[a.ua]
                   [] k = "Accept" -> ACCEPT_HEADERS[a.accept]
                   [] k = "Accept-Language" -> ACCEPT_LANGS[a.lang]
                   [] k = "Accept-Encoding" -> "gzip, deflate, br"
                   [] k = "Connection" -> "keep-alive"
                   [] k = "Upgrade-Insecure-Requests" -> "1"
                   [] k = "Sec-Fetch-Site" -> "none"
                   [] k = "Sec-Fetch-Mode" -> "navigate"
                   [] k = "Sec-Fetch-User" -> "?1"
                   [] OTHER -> "document"]
        h1 == IF a.referer # NoReferer /\ a.referer_draw
              THEN SetItem(h0, "Referer", a.referer) ELSE h0
        h2 == IF a.dnt_draw THEN SetItem(h1, "DNT", "1") ELSE h1
        h3 == IF a.cache_draw THEN SetItem(h2, "Cache-Control", "max-age=0") ELSE h2
        h4 == IF a.pragma_draw THEN SetItem(h3, "Pragma", "no-cache") ELSE h3
    IN  IF a.extra # EmptyDict THEN update(h4, a.extra) ELSE h4

\* random_headers is called
MakeHeaders ==
    /\ ~hdr_done
    /\ headers' = random_headers(hdr_args)
    /\ hdr_done' = TRUE
    /\ UNCHANGED hdr_args

HeadersInit ==
    /\ now = Epoch
    /\ nticks = 0
    /\ success = [p \in ProxyIds |-> 0]
    /\ fail = [p \in ProxyIds |-> 0]
    /\ cooldown_until = [p \in ProxyIds |-> 0]
    /\ created_at = [p \in ProxyIds |-> Epoch]
    /\ rd_pc = "idle"
    /\ rd_proxy = 1
    /\ rd_total = 0
    /\ rd_score = <<0, 1>>
    /\ offered = 0
    /\ proxies = <<>>
    /\ cursor = 0
    /\ sticky_map = [d \in Domains |-> None]
    /\ ret = NoRet
    /\ NoSession
    /\ pool_lock = None
    /\ NoAdapter
    /\ hdr_args \in HeaderArgs
    /\ headers = <<>>
    /\ hdr_done = FALSE
    /\ NoMarks
    /\ NoOptions

HeadersNext ==
    /\ MakeHeaders
    /\ UNCHANGED <<clockVars, proxyVars, readerVars, poolVars, ret, sessVars,
                   threadVars, pool_lock, adapterVars, markVars, optVars>>

SpecHeaders == HeadersInit /\ [][HeadersNext]_vars

(***************************************************************************)
(* The options of one request() call through its attempts.  request()      *)
(* passes its **kwargs on to _request_once at every attempt; _request_once *)
(* pops its own options from the dict it received and hands the rest to    *)
(* requests.request.  A dict is a function from its keys; an option value  *)
(* is a text or a dict of texts.  The pool gives a proxy at every attempt, *)
(* and the attempt ends with or without a response.                        *)
(***************************************************************************)
Val(text, dict) == [s |-> text, d |-> dict]
TextVal(text) == Val(text, EmptyDict)
DictVal(dict) == Val("", dict)

\* the options a caller may give: request(method, url, referer=...,
\* headers={...}, allow_redirects=False, timeout=30, verify=False)
FullOptions ==
    ("referer" :> TextVal("https://example.com"))
        @@ ("headers" :> DictVal("X-Custom" :> "v"))
        @@ ("allow_redirects" :> TextVal("False"))
        @@ ("timeout" :> TextVal("30"))
        @@ ("verify" :> TextVal("False"))
Restrict(f, keys) == [k \in keys |-> f[k]]
OptionSets == {Restrict(FullOptions, keys) : keys \in SUBSET DOMAIN FullOptions}

\* self.timeout, from base_timeout = 15
base_timeout == TextVal("15")

\* kwargs.pop(key, default): the value, and the dict left
PopValue(kwargs, key, default) == IF key \in DOMAIN kwargs THEN kwargs[key] ELSE default
PopRest(kwargs, key) == Restrict(kwargs, DOMAIN kwargs \ {key})

\* the caller's dict after _request_once(method, url, **kwargs) has
\* popped from its own: `**kwargs` builds a new dict for the callee
CallerKwargs_Shared(kwargs, left) == left
CallerKwargs(kwargs, left) == kwargs

\* _request_once from its pops to requests.request: what it passes to
\* random_headers and to requests.request, and what is left of its dict
RequestOnceCall(kwargs, draws) ==
    LET referer == PopValue(kwargs, "referer", TextVal(NoReferer)).s
        k1 == PopRest(kwargs, "referer")
        extra_headers == PopValue(k1, "headers", DictVal(EmptyDict)).d
        k2 == PopRest(k1, "headers")
        args == [is_mobile |-> draws.is_mobile, referer |-> referer,
                 extra |-> extra_headers, mobile_draw |-> draws.mobile_draw,
                 ua |-> draws.ua, accept |-> draws.accept, lang |-> draws.lang,
                 referer_draw |-> draws.referer_draw, dnt_draw |-> draws.dnt_draw,
                 cache_draw |-> draws.cache_draw, pragma_draw |-> draws.pragma_draw]
        allow_redirects == PopValue(k2, "allow_redirects", TextVal("True")).s
        k3 == PopRest(k2, "allow_redirects")
        timeout == PopValue(k3, "timeout", base_timeout).s
        k4 == PopRest(k3, "timeout")
    IN  [args |-> args, headers |-> random_headers(args),
         allow_redirects |-> allow_redirects, timeout |-> timeout, kwargs |-> k4]

\* the random draws of one attempt
Draws ==
    [is_mobile : BOOLEAN, mobile_draw : BOOLEAN, ua : Picks, accept : {1}, lang : {1},
     referer_draw : BOOLEAN, dnt_draw : BOOLEAN, cache_draw : {FALSE},
     pragma_draw : {FALSE}]

NoCall ==
    [headers |-> EmptyDict, allow_redirects |-> "", timeout |-> "", kwargs |-> EmptyDict]

\* request(method, url, **kwargs) is called
OptRequest ==
    /\ pc[1] = "idle"
    /\ IF max_retries >= 1
       THEN /\ pc' = [pc EXCEPT ![1] = "jitter"]
            /\ attempt' = [attempt EXCEPT ![1] = 1]
            /\ UNCHANGED result
       ELSE /\ pc' = [pc EXCEPT ![1] = "done"]
            /\ result' = [result EXCEPT ![1] = NoneResult]
            /\ UNCHANGED attempt
    /\ UNCHANGED <<held, out, sent, wake, headerVars, optVars>>

\* one attempt: _request_once(method, url, **kwargs) up to its network
\* call, which ends with outcome o
OptAttempt(draws, o) ==
    /\ pc[1] = "jitter"
    /\ LET call == RequestOnceCall(req_kwargs, draws)
       IN  /\ hdr_args' = call.args
           /\ headers' = call.headers
           /\ hdr_done' = TRUE
           /\ net_call' = [headers |-> call.headers,
                           allow_redirects |-> call.allow_redirects,
                           timeout |-> call.timeout, kwargs |-> call.kwargs]
           /\ req_kwargs' = CallerKwargs(req_kwargs, call.kwargs)
    /\ out' = [out EXCEPT ![1] = o]
    /\ sent' = [sent EXCEPT ![1] = @ + 1]
    /\ IF Classify(o).returns = "response"
       THEN /\ pc' = [pc EXCEPT ![1] = "done"]
            /\ result' = [result EXCEPT ![1] = Response(o)]
            /\ UNCHANGED attempt
       ELSE AttemptFailed(1)
    /\ UNCHANGED <<held, wake>>

OptionsInit ==
    /\ now = Epoch
    /\ nticks = 0
    /\ success = [p \in ProxyIds |-> 0]
    /\ fail = [p \in ProxyIds |-> 0]
    /\ cooldown_until = [p \in ProxyIds |-> 0]
    /\ created_at = [p \in ProxyIds |-> Epoch]
    /\ rd_pc = "idle"
    /\ rd_proxy = 1
    /\ rd_total = 0
    /\ rd_score = <<0, 1>>
    /\ offered = NumProxies
    /\ proxies = bulk_add(<<>>, [k \in 1..NumProxies |-> k])
    /\ cursor = 0
    /\ sticky_map = [d \in Domains |-> None]
    /\ ret = NoRet
    /\ session = "built"
    /\ max_retries = MaxRetries
    /\ net_dead = FALSE
    /\ domain_last_req = [d \in Domains |-> 0]
    /\ sess_lock = None
    /\ pc = [t \in Threads |-> "idle"]
    /\ attempt = [t \in Threads |-> 0]
    /\ held = [t \in Threads |-> None]
    /\ out = [t \in Threads |-> NoOutcome]
    /\ result = [t \in Threads |-> Pending]
    /\ sent = [t \in Threads |-> 0]
    /\ wake = [t \in Threads |-> 0]
    /\ pool_lock = None
    /\ NoAdapter
    /\ NoHeaders
    /\ NoMarks
    /\ req_kwargs \in OptionSets
    /\ net_call = NoCall

OptionsNext ==
    /\ \/ OptRequest
       \/ \E draws \in Draws, o \in {Resp(200, FALSE), Resp(429, FALSE)} :
             OptAttempt(draws, o)
    /\ UNCHANGED <<clockVars, proxyVars, readerVars, poolVars, ret, sessVars,
                   pool_lock, adapterVars, markVars>>

SpecOptions == OptionsInit /\ [][OptionsNext]_vars

(***************************************************************************)
(* Properties of the ProxyPool (SpecPool, SpecLoaded).                     *)
(***************************************************************************)
\* A step that is a get_next call: the call recorded after it is get_next,
\* and neither the clock, nor a counter, nor the list of offered proxies
\* moved (a clock advance or a mark_result leaves ret or these alone).
GetNextStep ==
    /\ ret'.op = "get_next"
    /\ UNCHANGED <<now, success, fail, cooldown_until, offered>>

Attempts(p) == success[p] + fail[p]

\* C1: the pool's list never holds more than max_size proxies.
C1_SizeAtMostMax == Len(proxies) <= max_size

\* An add found the pool full: more proxies were offered than it holds.
C1_Witness ==
    /\ ret.op \in {"add_proxy", "bulk_add"}
    /\ Len(proxies) = max_size
    /\ offered > max_size

C9_EvictsExactly ==
    [][GetNextStep =>
         \A p \in Range(proxies) :
            (p \notin Range(proxies'))
              <=> (/\ ~ScoreAtLeast(Score(p), eviction_threshold)
                   /\ Attempts(p) >= 5)]_vars

\* get_next has evicted a proxy with 5 attempts, and kept one whose score
\* is below the threshold too but that has fewer than 5 attempts.
C9_Witness ==
    /\ ret.op = "get_next"
    /\ \E p \in ProxyIds : p <= max_size /\ p \notin Range(proxies) /\ Attempts(p) >= 5
    /\ \E p \in Range(proxies) :
          ~ScoreAtLeast(Score(p), eviction_threshold) /\ Attempts(p) < 5

(***************************************************************************)
(* Properties of a single Proxy (SpecProxy).                               *)
(***************************************************************************)
InUnit(sc) == 0 <= sc[1] /\ sc[1] <= sc[2] /\ sc[2] > 0

\* C7 as stated: mark_success never increases cooldown_until (cooldown_until
\* after the call is at most cooldown_until before it).
C7_NeverIncreases ==
    [][ret'.op = "mark_success" /\ success'[1] = success[1] + 1
         => cooldown_until'[1] <= cooldown_until[1]]_vars

\* C7 amended: mark_success never raises cooldown_until above the later of
\* its previous value and the current time; for a proxy in cooldown
\* (cooldown_until >= now) it does not increase, for a proxy out of
\* cooldown it becomes the current time.
C7_NeverIncreasesPastNow ==
    [][ret'.op = "mark_success" /\ success'[1] = success[1] + 1
         => /\ cooldown_until'[1] <= Max(cooldown_until[1], now)
            /\ (cooldown_until[1] >= now => cooldown_until'[1] <= cooldown_until[1])
            /\ (cooldown_until[1] < now => cooldown_until'[1] = now)]_vars

\* mark_success has just acted on a proxy that was in cooldown with a
\* failure behind it, and the proxy still is in cooldown.
C7_Witness ==
    /\ ret.op = "mark_success"
    /\ fail[1] >= 1
    /\ cooldown_until[1] > now

\* C8: every mark_fail leaves cooldown_until at or above its previous
\* value, and after a mark_fail(soft=False) cooldown_until is at most
\* now + 3 * 90.
C8_FailCooldownMonotoneCapped ==
    [][ret'.op = "mark_fail" /\ fail'[1] = fail[1] + 1
         => /\ cooldown_until'[1] >= cooldown_until[1]
            /\ (~ret'.soft =>
                  cooldown_until'[1] <= now' + 3 * HARD_FAIL_PENALTY_SECONDS)]_vars

\* A sixth failure, a hard one, has just put the cooldown at the cap.
C8_Witness ==
    /\ ret.op = "mark_fail"
    /\ ~ret.soft
    /\ fail[1] >= 6
    /\ cooldown_until[1] = now + 3 * HARD_FAIL_PENALTY_SECONDS

\* C10: the score of every Proxy is within [0, 1], read in one piece or
\* read by a thread that holds no lock while results are being marked.
C10_ScoreInUnit ==
    /\ \A p \in ProxyIds : InUnit(Score(p))
    /\ (rd_pc = "done" => InUnit(rd_score))

\* A read that saw fewer attempts in its total than successes in its base
\* (base above 1 before the clamp) returned exactly 1.
C10_Witness ==
    /\ rd_pc = "done"
    /\ rd_total > 0
    /\ success[rd_proxy] > rd_total
    /\ rd_score[1] = rd_score[2]

(***************************************************************************)
(* Properties of StealthSession.request (SpecSession).                     *)
(***************************************************************************)
\* the scenario of C2: max_retries_per_request = 3, a pool of one proxy,
\* every network call ends in a ConnectionError, and the one request()
\* call made, by thread t, is over
OneDeadProxyDone(t) ==
    /\ max_retries = 3
    /\ net_dead
    /\ offered = 1
    /\ pc[t] = "done"
    /\ \A u \in Threads \ {t} : pc[u] = "idle"

\* C2 (as stated): with max_retries_per_request = 3 and a pool whose only
\* proxy always yields connection errors, request returns None after
\* exactly 3 attempts and the proxy's fail count has increased by 3.
C2_ThreeAttemptsThreeFails ==
    \A t \in Threads :
        OneDeadProxyDone(t) =>
            /\ result[t] = NoneResult
            /\ attempt[t] = 3
            /\ fail[1] = 3

\* C2 (amended): in that scenario request returns None after exactly 3
\* attempts; the proxy's fail count increases by the number of attempts
\* that obtained the proxy from the pool, which is at least 1 and at most
\* 3, and is exactly 1 when less than the soft-fail penalty of 20 seconds
\* has passed, because the first failure puts the only proxy in cooldown.
C2_ThreeAttemptsFailsPerSend ==
    \A t \in Threads :
        OneDeadProxyDone(t) =>
            /\ result[t] = NoneResult
            /\ attempt[t] = 3
            /\ fail[1] = sent[t]
            /\ 1 <= fail[1] /\ fail[1] <= 3
            /\ (now - Epoch < SOFT_FAIL_PENALTY_SECONDS => fail[1] = 1)

\* request() ended after three attempts of which only the first got the proxy
C2_Witness ==
    \E t \in Threads :
        /\ OneDeadProxyDone(t)
        /\ attempt[t] = 3
        /\ fail[1] = 1
        /\ held[t] = None

\* C3: request never raises for the expected failure modes: whatever the
\* attempts' outcomes (any status, block page, timeout, connection error,
\* other request exception, no proxy), a finished call has returned a
\* response or None.
C3_NeverRaises ==
    \A t \in Threads :
        /\ result[t] # Raised
        /\ pc[t] = "done" => result[t].kind \in {"response", "none"}

\* a call whose last attempt ended in a request exception that is neither
\* a timeout nor a connection error has returned None
C3_Witness ==
    \E t \in Threads :
        /\ pc[t] = "done"
        /\ out[t] = Exc("RequestException")
        /\ result[t] = NoneResult

\* C4: a negative max_retries_per_request is rejected by the constructor,
\* so no session with a negative retry count exists.
C4_NegativeRetriesRejected ==
    session = "built" => max_retries >= 0

\* thread t's network call ends in this step
RespondStep(t) == pc[t] = "send" /\ pc'[t] # "send"

\* the pool update the outcome table gives for outcome o
C11_Expected(o) ==
    IF o.exc \in {"Timeout", "ConnectionError"} THEN "soft"
    ELSE IF o.exc # "none" THEN "hard"
    ELSE IF o.status \in 200..299 THEN (IF o.blocked THEN "soft" ELSE "success")
    ELSE IF o.status \in {403, 429, 503} THEN "soft"
    ELSE IF o.status \in 300..399 THEN "success"
    ELSE "soft"

\* C11: an attempt that obtained a proxy makes exactly one pool update,
\* on that proxy, chosen by the outcome: mark_success for a 2xx without
\* block indicators and for a 3xx; mark_fail(soft) for a blocked 2xx, for
\* 403/429/503, for any other status, and for a timeout or connection
\* error; mark_fail(hard) for any other request exception.  A response is
\* handed back only in the two mark_success cases.
C11_OneUpdatePerOutcome ==
    [][\A t \in Threads :
          RespondStep(t) =>
              LET o == out'[t]
                  p == held[t]
                  e == C11_Expected(o)
              IN  /\ p # None
                  /\ ret'.op = "mark_result" /\ ret'.proxy = p
                  /\ ret'.success = (e = "success")
                  /\ e # "success" => ret'.soft = (e = "soft")
                  /\ success' = [success EXCEPT ![p] = @ + (IF e = "success" THEN 1 ELSE 0)]
                  /\ fail' = [fail EXCEPT ![p] = @ + (IF e = "success" THEN 0 ELSE 1)]
                  /\ cooldown_until' =
                       [cooldown_until EXCEPT ![p] =
                          IF e = "success" THEN mark_success_cooldown(@, now)
                          ELSE mark_fail_cooldown(@, now, fail[p] + 1, e = "soft")]
                  /\ (result'[t].kind = "response") <=> (e = "success")
                  /\ e = "success" => result'[t] = Response(o)]_vars

\* a 2xx response with a block pattern in its body has just been marked
\* as a soft failure of the proxy that carried it
C11_Witness ==
    \E t \in Threads :
        /\ out[t] = Resp(200, TRUE)
        /\ ret.op = "mark_result" /\ ret.proxy = held[t]
        /\ ~ret.success /\ ret.soft
        /\ fail[held[t]] >= 1
        /\ result[t].kind # "response"

\* get_next gives thread t no proxy in this step
NoProxyStep(t) == pc[t] = "select" /\ pc'[t] # "select" /\ held'[t] = None

\* C12: an attempt in which get_next yields no proxy is aborted with no
\* network call and no change to any proxy's counters or cooldown, and it
\* uses up one attempt of the retry budget; a request against a pool
\* without proxies returns None after max_retries attempts, none of which
\* made a network call.
C12_NoProxyAbortsAttempt ==
    [][\A t \in Threads :
          /\ NoProxyStep(t) =>
                /\ sent' = sent
                /\ pc'[t] # "send"
                /\ UNCHANGED <<success, fail, cooldown_until>>
                /\ ret'.op = "get_next" /\ ret'.result = None
                /\ IF attempt[t] < max_retries
                   THEN /\ attempt'[t] = attempt[t] + 1
                        /\ pc'[t] = "jitter"
                        /\ result'[t] = result[t]
                   ELSE /\ attempt'[t] = attempt[t]
                        /\ pc'[t] = "done"
                        /\ result'[t] = NoneResult
          /\ (pc'[t] = "done" /\ offered' = 0 /\ max_retries' >= 1) =>
                /\ result'[t] = NoneResult
                /\ attempt'[t] = max_retries'
                /\ sent'[t] = 0]_vars

\* an attempt has just ended for want of a proxy and the next one begins
C12_Witness ==
    \E t \in Threads :
        /\ pc[t] = "jitter"
        /\ attempt[t] >= 2
        /\ held[t] = None
        /\ ret.op = "get_next" /\ ret.result = None

\* what holds of a request() call of thread t at any moment
C13_Bounded(t) ==
    /\ attempt[t] <= max_retries
    /\ sent[t] <= attempt[t]
    /\ (pc[t] = "done" /\ result[t] = NoneResult) =>
          /\ attempt[t] = max_retries
          /\ sent[t] > 0 => C11_Expected(out[t]) # "success"
    /\ (pc[t] = "done" /\ result[t].kind = "response") =>
          /\ attempt[t] >= 1
          /\ C11_Expected(out[t]) = "success"
          /\ result[t] = Response(out[t])

\* C13: a request call (of a session built with a retry count that is not
\* negative) performs at most max_retries attempts; the first attempt
\* whose outcome is a success ends the call at once with that attempt's
\* response, after which the call makes no attempt and no pool update;
\* None comes back only after exactly max_retries unsuccessful attempts.
C13_StopsAtFirstSuccess ==
    /\ [](\A t \in Threads : max_retries >= 0 => C13_Bounded(t))
    /\ [][\A t \in Threads :
            /\ (RespondStep(t) /\ C11_Expected(out'[t]) = "success") =>
                  pc'[t] = "done" /\ result'[t] = Response(out'[t])
            /\ (RespondStep(t) /\ C11_Expected(out'[t]) # "success") =>
                  result'[t].kind # "response"
            /\ pc[t] = "done" =>
                  /\ pc'[t] = "done"
                  /\ attempt'[t] = attempt[t] /\ sent'[t] = sent[t]
                  /\ result'[t] = result[t] /\ held'[t] = held[t]
            /\ (\A u \in Threads : pc[u] = "done") =>
                  UNCHANGED <<proxyVars, poolVars, ret>>]_vars

\* a call that failed once, then succeeded on its second attempt of three
C13_Witness ==
    \E t \in Threads :
        /\ max_retries = 3
        /\ pc[t] = "done"
        /\ result[t].kind = "response"
        /\ attempt[t] = 2
        /\ sent[t] = 2

\* thread t's get_next call returns in this step
SelectStep(t) == pc[t] = "select" /\ pc'[t] # "select"
Transient(o) == o.exc \in {"Timeout", "ConnectionError"}
\* thread t's previous attempt went through proxy held[t] and ended in a
\* timeout or a connection error
AfterTransient(t) == attempt[t] >= 2 /\ held[t] # None /\ Transient(out[t])
\* a transient failure of thread t's attempt marks its proxy soft-failed
C14_MarkedSoft(t) ==
    (RespondStep(t) /\ Transient(out'[t])) =>
        /\ ret'.op = "mark_result" /\ ret'.proxy = held[t]
        /\ ~ret'.success /\ ret'.soft
        /\ fail'[held[t]] = fail[held[t]] + 1
        /\ cooldown_until'[held[t]] >= now + SOFT_FAIL_PENALTY_SECONDS

\* C14 (as stated): after an attempt fails with a timeout or a connection
\* error the proxy used is marked soft-failed, and the next attempt of the
\* same call is made through a different proxy.
C14_NextThroughDifferentProxy ==
    [][\A t \in Threads :
          /\ C14_MarkedSoft(t)
          /\ (SelectStep(t) /\ AfterTransient(t)) =>
                held'[t] # None /\ held'[t] # held[t]]_vars

\* C14 (amended): the proxy used is marked soft-failed, which puts it in
\* cooldown for at least 20 seconds; while that cooldown lasts the next
\* attempt of the same call does not go through that proxy: it goes
\* through a different proxy if the pool has an available one and is
\* aborted without a proxy otherwise.
C14_NextAvoidsCoolingProxy ==
    [][\A t \in Threads :
          /\ C14_MarkedSoft(t)
          /\ (SelectStep(t) /\ AfterTransient(t) /\ now < cooldown_until[held[t]]) =>
                /\ held'[t] # held[t]
                /\ (held'[t] = None) <=>
                      (\A q \in Range(proxies') : now < cooldown_until[q])]_vars

\* the second attempt of a call goes through another proxy than the
\* first, which a connection error has put in cooldown
C14_Witness ==
    \E t \in Threads :
        /\ pc[t] = "send"
        /\ attempt[t] = 2 /\ sent[t] = 1
        /\ Transient(out[t])
        /\ held[t] # None
        /\ \E q \in ProxyIds \ {held[t]} : fail[q] = 1 /\ now < cooldown_until[q]

(***************************************************************************)
(* Properties of concurrent request() calls (SpecCallers).                 *)
(***************************************************************************)
\* C15: no thread holds the ProxyPool lock while it sleeps (the jitter
\* sleep, the pacing sleep) or while its network call is in flight; a
\* thread holds the pool lock only inside a pool method (here get_next and
\* mark_result).
C15_NoPoolLockOutsidePoolMethods ==
    \A t \in Callers :
        /\ pc[t] \in {"jitter", "pace", "pace_sleep", "send"} => pool_lock # t
        /\ pool_lock = t => pc[t] \in {"get_next", "mark_result"}

\* one thread is inside get_next with the pool lock while another sleeps
\* in the pacing delay and a network call or a jitter sleep is possible
C15_Witness ==
    \E t \in Callers, u \in Callers :
        /\ t # u
        /\ pool_lock = t /\ pc[t] = "get_next"
        /\ pc[u] = "pace_sleep"

\* C16: for every domain, under any interleaving of concurrent request
\* calls on one session, the stored last-request time only moves forward:
\* each write is greater than or equal to the value it replaces.
C16_StampsMoveForward ==
    [][\A d \in Domains : domain_last_req'[d] >= domain_last_req[d]]_vars

\* every thread has stamped the domain, the last stamp later than the start
C16_Witness ==
    /\ \A t \in Callers : sent[t] >= 1
    /\ domain_last_req[TheDomain] > Epoch
    /\ \E t \in Callers : attempt[t] >= 2

(***************************************************************************)
(* More properties of the ProxyPool (SpecPool, SpecLoaded).                *)
(***************************************************************************)
\* the get_next call of this step finds the domain's sticky proxy
\* available with score >= min_score, and returns it
C17_ViaSticky ==
    /\ ret'.sticky /\ ret'.domain \in Domains
    /\ sticky_map[ret'.domain] # None
    /\ now >= cooldown_until[sticky_map[ret'.domain]]
    /\ ScoreAtLeast(Score(sticky_map[ret'.domain]), min_score)

\* C17: a get_next call that does not return the sticky proxy returns
\* None if and only if no proxy of the pool (after eviction) is
\* available; the proxy it returns is an available proxy of the pool, and
\* has a score below min_score only when no available proxy of the pool
\* has score >= min_score.
C17_FallbackOnlyWhenNoHealthy ==
    [][(GetNextStep /\ ~C17_ViaSticky) =>
         LET r == ret'.result
             pool == Range(proxies')
         IN  /\ (r = None) <=> (\A p \in pool : now < cooldown_until[p])
             /\ r # None => r \in pool /\ now >= cooldown_until[r]
             /\ (r # None /\ ~ScoreAtLeast(Score(r), min_score)) =>
                   \A p \in pool :
                      ~(now >= cooldown_until[p] /\ ScoreAtLeast(Score(p), min_score))]_vars

\* get_next has just returned, from a pool of two, a proxy whose score is
\* below min_score
C17_Witness ==
    /\ ret.op = "get_next"
    /\ ret.result # None
    /\ ~ScoreAtLeast(Score(ret.result), min_score)
    /\ Len(proxies) >= 2

\* the step is a bulk_add call with a list of ret'.proxy Proxy objects,
\* those numbered offered + 1 .. offered'
BulkAddStep ==
    /\ ret'.op = "bulk_add"
    /\ offered' = offered + ret'.proxy
    /\ UNCHANGED <<now, success, fail, cooldown_until, cursor, sticky_map>>
AddProxyStep ==
    /\ ret'.op = "add_proxy"
    /\ offered' = offered + 1
    /\ ret'.proxy = offered'

\* C18: bulk_add on a pool of k proxies with a list of n leaves exactly
\* min(max_size, k + n) proxies: the old ones, then the supplied entries
\* in order as far as there is room, the rest being dropped; add_proxy
\* appends the proxy when there is room and leaves a full pool unchanged.
C18_BulkAddFillsInOrder ==
    [][/\ BulkAddStep =>
            LET k == Len(proxies)
                n == ret'.proxy
                m == Min(max_size, k + n)
            IN  /\ Len(proxies') = m
                /\ \A i \in 1..m :
                      proxies'[i] = IF i <= k THEN proxies[i] ELSE offered + (i - k)
       /\ AddProxyStep =>
            proxies' = IF Len(proxies) = max_size THEN proxies
                       ELSE Append(proxies, ret'.proxy)]_vars

\* an empty pool was bulk-loaded with more entries than max_size and holds
\* the first max_size of them
C18_Witness ==
    /\ ret.op = "bulk_add"
    /\ ret.proxy > max_size
    /\ offered = ret.proxy
    /\ proxies = [i \in 1..max_size |-> i]

\* the step is a mark_result call
MarkResultStep == ret'.op = "mark_result" /\ now' = now

\* C19: the success and fail counters of a Proxy never decrease; a
\* mark_result call with a proxy adds exactly 1 to exactly one of that
\* proxy's counters (success when success=True, fail otherwise) and
\* leaves every other counter alone; mark_result with no proxy (None)
\* changes no state.
C19_MarkResultCountsOnce ==
    [][/\ \A p \in ProxyIds : success'[p] >= success[p] /\ fail'[p] >= fail[p]
       /\ (MarkResultStep /\ ret'.proxy # None) =>
             LET p == ret'.proxy
             IN  /\ success' = [success EXCEPT ![p] = @ + (IF ret'.success THEN 1 ELSE 0)]
                 /\ fail' = [fail EXCEPT ![p] = @ + (IF ret'.success THEN 0 ELSE 1)]
       /\ (MarkResultStep /\ ret'.proxy = None) =>
             UNCHANGED <<proxyVars, poolVars, clockVars>>]_vars

\* a proxy has been marked once as a success and once as a failure, and a
\* mark_result(None, ...) call has just returned
C19_Witness ==
    /\ ret.op = "mark_result"
    /\ ret.proxy = None
    /\ \E p \in ProxyIds : success[p] = 1 /\ fail[p] = 1

(***************************************************************************)
(* Properties of the source adapter (SpecAdapter).                         *)
(***************************************************************************)
\* address and port present (the record has the keys), port convertible
\* to an integer
C20_WellFormed(item) ==
    /\ item.ip.kind # "absent"
    /\ item.port.kind \in {"int", "numstr"}
\* and the protocol, if the record has one, a string
C20_WellFormedText(item) ==
    /\ C20_WellFormed(item)
    /\ item.protocol.kind \in {"absent", "str"}

\* the output holds, in input order, one Proxy for each record of the
\* input that satisfies WF, with the record's address and port
C20_OnePerRecord(WF(_)) ==
    LET good == SelectSeq(api_result, WF)
    IN  /\ Len(adapter_out) = Len(good)
        /\ \A i \in 1..Len(good) :
              /\ adapter_out[i].host = good[i].ip
              /\ adapter_out[i].port = good[i].port.n

\* C20 (as stated): the adapter returns exactly one Proxy per well-formed
\* record (address and port present, port convertible to an integer), in
\* input order, and skips every other record without aborting the batch.
C20_OnePerWellFormed ==
    adapter_done => C20_OnePerRecord(C20_WellFormed)

\* C20 (amended): the same, a well-formed record being one whose address
\* and port are present, whose port is convertible to an integer and
\* whose protocol, if present, is a string; a record whose protocol is
\* null is skipped like a malformed one.
C20_OnePerWellFormedText ==
    adapter_done => C20_OnePerRecord(C20_WellFormedText)

\* a malformed record, then a well-formed one whose port is a numeric
\* string: the output is the Proxy of the second
C20_Witness ==
    /\ adapter_done
    /\ Len(api_result) = 2
    /\ ~C20_WellFormedText(api_result[1])
    /\ C20_WellFormedText(api_result[2])
    /\ api_result[2].port.kind = "numstr"
    /\ Len(adapter_out) = 1
    /\ adapter_out[1].port = api_result[2].port.n

(***************************************************************************)
(* Per-domain pacing (SpecCallers).                                        *)
(***************************************************************************)
\* the gaps per_domain_delay allows
C21_Gaps == MIN_DOMAIN_DELAY..MAX_DOMAIN_DELAY

\* C21: before each attempt the session waits so that the time it records
\* for the domain is at least the gap drawn (so at least the configured
\* minimum delay) later than the time recorded before, whatever the
\* interleaving of concurrent callers.  A thread asleep in the pacing
\* delay wakes at the recorded time plus its gap, and no other thread
\* records a time meanwhile.
C21_StampsSpacedByGap ==
    /\ [](\A t \in Callers :
            pc[t] = "pace_sleep" =>
               wake[t] - domain_last_req[TheDomain] \in C21_Gaps)
    /\ [][\A t \in Callers :
            /\ (pc[t] = "pace_sleep" /\ pc'[t] # "pace_sleep") =>
                  domain_last_req'[TheDomain] >= wake[t]
            /\ domain_last_req'[TheDomain] # domain_last_req[TheDomain] =>
                  domain_last_req'[TheDomain] - domain_last_req[TheDomain]
                     >= MIN_DOMAIN_DELAY]_vars

\* a thread has slept out its gap and recorded the time, after another
\* thread's request to the domain
C21_Witness ==
    \E t \in Callers, u \in Callers :
        /\ t # u
        /\ pc[t] = "select"
        /\ wake[t] > Epoch
        /\ domain_last_req[TheDomain] = now
        /\ now >= wake[t]
        /\ sent[u] >= 1

(***************************************************************************)
(* Properties of random_headers (SpecHeaders).                             *)
(***************************************************************************)
\* C22: whatever is_mobile, referer and the random draws, the header set
\* returned has User-Agent, Accept and Accept-Language, and every
\* (name, value) pair of the caller's extra mapping is in it, in place of
\* a generated header of the same name.
C22_HeadersAndExtras ==
    hdr_done =>
        /\ {"User-Agent", "Accept", "Accept-Language"} \subseteq DOMAIN headers
        /\ \A k \in DOMAIN hdr_args.extra : headers[k] = hdr_args.extra[k]

\* the caller's User-Agent has replaced the generated one
C22_Witness ==
    /\ hdr_done
    /\ "User-Agent" \in DOMAIN hdr_args.extra
    /\ headers["User-Agent"] = "caller-agent"
    /\ "Accept-Language" \in DOMAIN headers

(***************************************************************************)
(* Further properties of a single Proxy (SpecProxy).                       *)
(***************************************************************************)
\* sc <= threshold, threshold in hundredths
ScoreAtMost(sc, threshold) == sc[1] * 100 <= threshold * sc[2]

\* C23: a Proxy with no recorded attempt and a negligible age (here: any
\* age up to two hours, the age at which the decay reaches 0.1) has a
\* score within [0.4, 0.6].
C23_FreshScore ==
    \A p \in ProxyIds :
        (success[p] + fail[p] = 0 /\ now - created_at[p] <= 2 * DECAY_HOURS_DIVISOR)
            => /\ ScoreAtLeast(Score(p), 40)
               /\ ScoreAtMost(Score(p), 60)

\* a proxy without attempts, some seconds old, scores just under 0.5
C23_Witness ==
    /\ success[1] + fail[1] = 0
    /\ now - created_at[1] \in 1..60
    /\ ScoreAtLeast(Score(1), 49)
    /\ ~ScoreAtLeast(Score(1), 50)

(***************************************************************************)
(* Eviction, cooldown and stickiness in get_next (SpecHeld, SpecLoaded).   *)
(***************************************************************************)
\* C24: every proxy get_next returns, by the sticky path or by selection,
\* is an element of the pool's list when it is returned (an evicted proxy
\* is never handed out again).
C24_ReturnedInList ==
    (ret.op = "get_next" /\ ret.result # None) => ret.result \in Range(proxies)

\* C25: every proxy get_next returns, through the sticky path, the healthy
\* candidates or the fallback candidates, is out of cooldown when it is
\* selected (now >= cooldown_until).
C25_ReturnedAvailable ==
    [][(GetNextStep /\ ret'.result # None) =>
          now >= cooldown_until[ret'.result]]_vars

\* get_next has just returned a proxy whose cooldown had been set by a
\* failure and has passed, while another proxy of the list is cooling
C25_Witness ==
    /\ ret.op = "get_next"
    /\ ret.result # None
    /\ fail[ret.result] >= 1
    /\ cooldown_until[ret.result] > Epoch
    /\ now >= cooldown_until[ret.result]
    /\ \E p \in Range(proxies) : now < cooldown_until[p]

\* the sticky proxy of the domain of this step's get_next call
C26_Sticky == sticky_map[ret'.domain]
\* the candidates get_next rotates over: the available proxies of the
\* list with score >= min_score, or else the available ones
C26_Candidates ==
    LET ok(p) == now >= cooldown_until[p] /\ ScoreAtLeast(Score(p), min_score)
        avail(p) == now >= cooldown_until[p]
    IN  IF SelectSeq(proxies', ok) # <<>> THEN SelectSeq(proxies', ok)
        ELSE SelectSeq(proxies', avail)

\* C26: get_next(domain, enable_sticky=True) returns the domain's sticky
\* proxy whenever that proxy is available with score >= min_score; when
\* the sticky proxy is in cooldown or below min_score and some proxy of
\* the pool is available, it returns the round-robin choice (the cursor
\* advanced by one modulo the number of candidates) and the domain's
\* sticky mapping becomes that choice.
C26_StickyOrRotate ==
    [][(GetNextStep /\ ret'.sticky /\ ret'.domain \in Domains /\ C26_Sticky # None) =>
          IF now >= cooldown_until[C26_Sticky]
             /\ ScoreAtLeast(Score(C26_Sticky), min_score)
          THEN /\ ret'.result = C26_Sticky
               /\ sticky_map' = sticky_map
          ELSE (\E p \in Range(proxies') : now >= cooldown_until[p]) =>
                  /\ cursor' = (cursor + 1) % Len(C26_Candidates)
                  /\ ret'.result = C26_Candidates[cursor' + 1]
                  /\ sticky_map'[ret'.domain] = ret'.result]_vars

\* get_next has just passed over a cooling proxy of the list and made
\* the proxy it chose by rotation the domain's sticky proxy
C26_Witness ==
    /\ ret.op = "get_next"
    /\ ret.sticky /\ ret.domain \in Domains
    /\ ret.result # None
    /\ sticky_map[ret.domain] = ret.result
    /\ \E p \in Range(proxies) :
          p # ret.result /\ fail[p] >= 1 /\ now < cooldown_until[p]

(***************************************************************************)
(* Cooldown arithmetic of a single Proxy (SpecProxy).                      *)
(***************************************************************************)
\* the multiplier of the k-th failure as the claim tabulates it
C27_Multiplier(k) == IF k <= 2 THEN 1 ELSE IF k <= 5 THEN 2 ELSE 3

\* C27: the k-th failure recorded for a proxy sets cooldown_until to the
\* later of its previous value and now + base * min(3, 1 + floor(k / 3)),
\* base being 20 s for a soft and 90 s for a hard failure; the multiplier
\* is 1 for failures 1-2, 2 for failures 3-5, 3 from the 6th on, whatever
\* the number of successes recorded in between.
C27_KthFailureCooldown ==
    [][ret'.op = "mark_fail" /\ fail'[1] = fail[1] + 1 =>
         LET k == fail'[1]
             base == IF ret'.soft THEN 20 ELSE 90
         IN  /\ Min(3, 1 + (k \div 3)) = C27_Multiplier(k)
             /\ cooldown_until'[1] =
                    Max(cooldown_until[1], now + base * C27_Multiplier(k))]_vars

\* the third failure, a soft one, with successes before it: the cooldown
\* is twice the soft penalty from now
C27_Witness ==
    /\ ret.op = "mark_fail"
    /\ ret.soft
    /\ fail[1] = 3
    /\ success[1] >= 2
    /\ cooldown_until[1] = now + 40
\* C28: after mark_success cooldown_until is max(previous - 5, now): a
\* proxy with at most 5 s of cooldown left is available at once, one with
\* more left stays unavailable.
C28_SuccessCutsCooldown ==
    [][ret'.op = "mark_success" /\ success'[1] = success[1] + 1 =>
         /\ cooldown_until'[1] = Max(cooldown_until[1] - 5, now)
         /\ (cooldown_until[1] - now <= 5 => now >= cooldown_until'[1])
         /\ (cooldown_until[1] - now > 5 => now < cooldown_until'[1])]_vars

\* a soft failure's 20 s cooldown, 15 s later: the success that followed
\* took the remaining 5 s away
C28_Witness ==
    /\ ret.op = "mark_success"
    /\ fail[1] = 1 /\ success[1] = 1
    /\ now = Epoch + 15
    /\ cooldown_until[1] = now
\* The base ratio, the decay and the decay ceiling of proxy p as
\* fractions over the denominator of Score(p): base is success / total
\* or 0.5, decay is min(0.2, age / 3600 * 0.05), the ceiling is 0.2.
C29_Total(p) == IF success[p] + fail[p] > 0 THEN success[p] + fail[p] ELSE 1
C29_Base(p) ==
    IF success[p] + fail[p] > 0 THEN 100 * 3600 * success[p]
    ELSE 50 * 3600
C29_Decay(p) ==
    Min(20 * 3600, Max(1, now - created_at[p]) * 5) * C29_Total(p)
C29_Ceiling(p) == 20 * 3600 * C29_Total(p)

\* C29: base - 0.2 <= score <= base whenever base - decay is within
\* [0, 1]; after n >= 1 successes and no failure the score is at least
\* 0.8 at any age.
C29_WithinDecayCeiling ==
    \A p \in ProxyIds :
        /\ Score(p)[2] = 100 * 3600 * C29_Total(p)
        /\ (C29_Base(p) - C29_Decay(p) >= 0 /\ C29_Base(p) - C29_Decay(p) <= Score(p)[2])
              => /\ C29_Base(p) - C29_Ceiling(p) <= Score(p)[1]
                 /\ Score(p)[1] <= C29_Base(p)
        /\ (success[p] >= 1 /\ fail[p] = 0) => ScoreAtLeast(Score(p), 80)

\* successes only, four hours after creation: the decay is at its
\* ceiling and the score is exactly 0.8
C29_Witness ==
    /\ success[1] >= 1
    /\ fail[1] = 0
    /\ now - created_at[1] = 14400
    /\ ScoreAtLeast(Score(1), 80)
    /\ ScoreAtMost(Score(1), 80)
(***************************************************************************)
(* What request() hands to its caller (SpecSession).                       *)
(***************************************************************************)
\* C30: a response returned by request has a 2xx status and no block
\* indicator in the first 4096 characters of its body, or a 3xx status;
\* a 403, 429 or 503, any other 4xx/5xx, or a 2xx block page is never
\* returned.
C30_OnlyGoodResponses ==
    \A t \in Threads :
        result[t].kind = "response" =>
            \/ 200 <= result[t].status /\ result[t].status < 300 /\ ~result[t].blocked
            \/ 300 <= result[t].status /\ result[t].status < 400

\* a clean 200 returned by the second attempt, after an attempt whose
\* response was not handed to the caller
C30_Witness ==
    \E t \in Threads :
        /\ result[t].kind = "response"
        /\ result[t].status = 200
        /\ ~result[t].blocked
        /\ attempt[t] = 2
        /\ sent[t] = 2
(***************************************************************************)
(* Rotation and frame of get_next (SpecPool).                              *)
(***************************************************************************)
\* The candidate set of this step's get_next call is the whole list and
\* was the whole list at the call before: nothing was marked or added
\* since (the call before is the last operation), no proxy of the list
\* has ever been cooling (cooldown_until at most the starting time) and
\* every one has score >= min_score now, hence had it earlier; this call
\* evicts nothing.
C31_Frozen ==
    /\ ret.op = "get_next"
    /\ ret.result # None
    /\ proxies' = proxies
    /\ \A p \in Range(proxies) :
          cooldown_until[p] <= Epoch /\ ScoreAtLeast(Score(p), min_score)

\* the position of proxy p in the list
C31_Index(p) == CHOOSE i \in 1..Len(proxies) : proxies[i] = p

\* C31: with sticky disabled and an unchanged candidate set of n
\* proxies, each get_next call returns the candidate that follows, in
\* cyclic order, the one the call before returned, so any n calls in
\* succession return each candidate exactly once.
C31_RoundRobin ==
    [][(GetNextStep /\ ~ret'.sticky /\ ~ret.sticky /\ C31_Frozen) =>
          /\ ret.result \in Range(proxies)
          /\ ret'.result = proxies[(C31_Index(ret.result) % Len(proxies)) + 1]
          /\ (Len(proxies) = 2 /\ ret'.prev # None) =>
                {ret'.prev, ret'.result} = Range(proxies)]_vars

\* two get_next calls in succession on a steady list of two, sticky
\* disabled, have returned both proxies
C31_Witness ==
    /\ ret.op = "get_next"
    /\ ~ret.sticky
    /\ ret.prev # None
    /\ Len(proxies) = 2
    /\ {ret.prev, ret.result} = Range(proxies)
    /\ \A p \in Range(proxies) : cooldown_until[p] <= Epoch
(***************************************************************************)
(* Concurrent result recording and pacing (SpecMarks, SpecPacing).         *)
(***************************************************************************)
\* the threads that have incremented a counter of proxy p and not yet
\* returned from mark_result
C32_InFlight(p) == {t \in Callers : pc[t] = "mark_cool" /\ held[t] = p}

\* C32: under any interleaving of mark_result calls of several threads,
\* each proxy's success + fail is the number of mark_result calls
\* completed with that proxy (plus those past their increment and not
\* yet returned), and no thread is inside get_next while a mark_result is
\* between its counter increment and its cooldown update.
C32_NoLostMark ==
    /\ \A p \in ProxyIds :
          success[p] + fail[p] = mk_done[p] + Cardinality(C32_InFlight(p))
    /\ \A t \in Callers, u \in Callers :
          ~(pc[t] = "get_next" /\ pc[u] \in {"mark_write", "mark_cool"})

\* after a first mark_result has returned, a thread is between increment
\* and cooldown update of a mark_result while the other thread waits to
\* mark the same proxy
C32_Witness ==
    \E t \in Callers, u \in Callers :
        /\ pc[t] = "mark_cool"
        /\ pc[u] = "mark_wait"
        /\ held[t] = held[u]
        /\ \E p \in ProxyIds : mk_done[p] >= 1
\* C33: a thread sleeping for the pacing of one domain does not keep a
\* thread that requests a different domain from passing its own pacing
\* step: while the one sleeps the session lock is free for the other.
C33_SleeperLeavesLockFree ==
    \A t \in Callers, u \in Callers :
        (pc[t] = "pace_sleep" /\ pc[u] = "pace" /\ DomainOf(u) # DomainOf(t))
            => sess_lock = None
\* C34: no thread ever holds the session lock and the pool lock at the
\* same time, and every request() call a thread has begun eventually
\* returns (every network call returning).
C34_NoDeadlockAndTermination ==
    /\ [](\A t \in Callers : ~(sess_lock = t /\ pool_lock = t))
    /\ \A t \in Callers : (pc[t] # "idle") ~> (pc[t] = "done")

\* both threads have returned from request(), one of them after a pacing
\* sleep and a second attempt
C34_Witness ==
    /\ \A t \in Callers : pc[t] = "done" /\ sent[t] >= 1
    /\ \E t \in Callers : attempt[t] = 2 /\ wake[t] > Epoch
(***************************************************************************)
(* The options of a request() call (SpecOptions).                          *)
(***************************************************************************)
\* the option `key` the caller supplied, or the default of _request_once
C35_Option(key, default) ==
    IF key \in DOMAIN req_kwargs THEN req_kwargs[key].s ELSE default
C35_Headers ==
    IF "headers" \in DOMAIN req_kwargs THEN req_kwargs["headers"].d ELSE EmptyDict

\* C35: at every attempt of a request() call the options the caller
\* supplied are applied as supplied: its headers are in the headers sent,
\* its referer is the referer the header generator is given,
\* allow_redirects, timeout and every other keyword reach
\* requests.request unchanged; the caller's options are never consumed.
C35_OptionsKeptAcrossAttempts ==
    /\ [](sent[1] >= 1 =>
            /\ \A k \in DOMAIN C35_Headers : net_call.headers[k] = C35_Headers[k]
            /\ hdr_args.extra = C35_Headers
            /\ hdr_args.referer = C35_Option("referer", "")
            /\ net_call.allow_redirects = C35_Option("allow_redirects", "True")
            /\ net_call.timeout = C35_Option("timeout", "15")
            /\ net_call.kwargs =
                   [k \in DOMAIN req_kwargs
                            \ {"referer", "headers", "allow_redirects", "timeout"} |->
                        req_kwargs[k]])
    /\ [][req_kwargs' = req_kwargs]_vars

\* the third attempt of a call made with every option: timeout, headers
\* and the passthrough keyword were applied again (the Referer header was
\* left out by this attempt's draw)
C35_Witness ==
    /\ sent[1] = 3
    /\ req_kwargs = FullOptions
    /\ net_call.timeout = "30"
    /\ net_call.allow_redirects = "False"
    /\ net_call.headers["X-Custom"] = "v"
    /\ "verify" \in DOMAIN net_call.kwargs
    /\ "Referer" \notin DOMAIN net_call.headers
(***************************************************************************)
(* Frame of get_next and range of the cursor (SpecPool).                   *)
(***************************************************************************)
\* this step's get_next call is made with sticky enabled and a domain
C36_UsesSticky == ret'.sticky /\ ret'.domain \in Domains

\* C36 as stated: a get_next call that returns the domain's sticky proxy
\* leaves the cursor and the sticky map unchanged.
C36_ReturningStickyLeavesCursor ==
    [][(GetNextStep /\ C36_UsesSticky /\ ret'.result # None
          /\ ret'.result = sticky_map[ret'.domain]) =>
             (cursor' = cursor /\ sticky_map' = sticky_map)]_vars

\* C36 amended: a get_next call that returns the sticky proxy by the
\* sticky path (the proxy is available with score >= min_score) leaves
\* the cursor and the sticky map unchanged; a call with
\* enable_sticky=False or without a domain leaves the sticky map
\* unchanged and returns what the rotation alone gives; a call that
\* returns None leaves the cursor and the sticky map unchanged.
C36_FrameOfGetNext ==
    [][GetNextStep =>
         /\ (C36_UsesSticky /\ C17_ViaSticky) =>
               /\ ret'.result = sticky_map[ret'.domain]
               /\ cursor' = cursor
               /\ sticky_map' = sticky_map
         /\ ~C36_UsesSticky =>
               /\ sticky_map' = sticky_map
               /\ IF C26_Candidates = <<>>
                  THEN ret'.result = None
                  ELSE /\ cursor' = (cursor + 1) % Len(C26_Candidates)
                       /\ ret'.result = C26_Candidates[cursor' + 1]
         /\ ret'.result = None =>
               (cursor' = cursor /\ sticky_map' = sticky_map)]_vars

\* get_next has returned the sticky proxy of a domain a second time in
\* succession, from a list of two, with the cursor where the rotation
\* had left it
C36_Witness ==
    /\ ret.op = "get_next"
    /\ ret.sticky /\ ret.domain \in Domains
    /\ ret.prev # None
    /\ ret.result = ret.prev
    /\ sticky_map[ret.domain] = ret.result
    /\ Len(proxies) = 2
    /\ proxies[cursor + 1] = ret.result
\* C37: whenever get_next picks a proxy by rotation, the index it uses
\* lies in 0 .. (number of candidates - 1) of the candidate set of that
\* call, whatever the cursor and the candidate set were at the call
\* before, and the proxy returned is the candidate at that index.
C37_CursorInsideCandidates ==
    [][(GetNextStep /\ ~C17_ViaSticky /\ ret'.result # None) =>
          /\ C26_Candidates # <<>>
          /\ 0 <= cursor'
          /\ cursor' < Len(C26_Candidates)
          /\ ret'.result = C26_Candidates[cursor' + 1]]_vars

\* get_next has just picked the only candidate left of a longer list: a
\* proxy that had been handed out and then failed is cooling, and the
\* cursor has wrapped to 0
C37_Witness ==
    /\ ret.op = "get_next"
    /\ ret.result # None
    /\ Len(proxies) >= 2
    /\ Candidates(proxies) = <<ret.result>>
    /\ cursor = 0
    /\ \E i \in 2..Len(proxies) :
          /\ proxies[i] # ret.result
          /\ fail[proxies[i]] >= 1
          /\ ~is_available(proxies[i])

=============================================================================
